---- MODULE Spec2Model ----
(***************************************************************************)
(* Link graph construction, link checking and topology analyses of the     *)
(* documentation corpus (core/links/tracker.ts, core/links/checker.ts,     *)
(* utils/markdown.ts, utils/glob.ts, core/domains/detector.ts) and the     *)
(* depth-first cycle detection of core/discover/dependencies.ts.           *)
(*                                                                         *)
(* Strings that the code inspects character by character are modelled as   *)
(* sequences of tokens: a path or URL is a sequence over names, "/", "#",  *)
(* ".", ".." and scheme prefixes ("https://").  Paths that went through    *)
(* node's path module are sequences of segments counted from the           *)
(* filesystem root.                                                        *)
(***************************************************************************)
EXTENDS Integers, Sequences, FiniteSets, TLC

\* ------------------------------------------------------------------ bounds
\* Total number of content tokens (links and line breaks) in the corpus.
MaxTokens == 2
\* Number of corpus files whose read may fail.
MaxUnreadable == 1
\* Most directories between the documentation root and a file's last segments.
MaxDepth == 10
\* Most chunks of text in a document handed to the domain detector.
MaxChunks == 3
\* Most runs of equal lines in a document handed to the tier classifier.
MaxRuns == 2
\* Most pieces (links, line breaks, raw text) of a document handed to extractLinks.
MaxPieces == 3
\* Most fields an author declares in the front matter handed to generateMetadata.
MaxDeclared == 2
\* Most occurrences of a keyword in a scored document.
MaxRepeats == 21
\* Most occurrences of the keyword of the other domain.
MaxSecond == 2
\* Most files of a metadata sync and most links of a link check.
MaxSynced == 2
MaxChecked == 2
\* Most references in a graph handed to the cycle detection.
MaxEdges == 4

\* --------------------------------------------------------------- constants
Null == "null"

DOMAINS ==
  << "agents", "api", "architecture", "backups", "database", "devops",
     "features", "plans", "procedures", "quickstart", "security",
     "standards", "testing", "troubleshooting", "workflows" >>

StructuralNames == {"INDEX.md", "REGISTRY.md", "README.md"}

\* ------------------------------------------------------- sequence helpers
Range(s) == {s[k] : k \in 1..Len(s)}

IndexOf(s, x) ==
  IF x \in Range(s) THEN CHOOSE k \in 1..Len(s) : s[k] = x /\ \A m \in 1..(k-1) : s[m] # x
  ELSE 0

Last(s) == s[Len(s)]

Front(s) == SubSeq(s, 1, Len(s) - 1)

\* ----------------------------------------------------- string operations
\* str.split('#')[0]
BeforeHash(url) ==
  IF "#" \in Range(url) THEN SubSeq(url, 1, IndexOf(url, "#") - 1) ELSE url

\* str.startsWith('/')
StartsWithSlash(s) == Len(s) > 0 /\ s[1] = "/"

\* str.split('/') : the segments between the separators, "" for an empty one
RECURSIVE SplitSlash(_)
SplitSlash(s) ==
  IF "/" \notin Range(s) THEN << s >>
  ELSE LET k == IndexOf(s, "/")
       IN  << SubSeq(s, 1, k - 1) >> \o SplitSlash(SubSeq(s, k + 1, Len(s)))

\* A segment is one name token; an empty segment is the name "".
SegName(seg) == IF seg = <<>> THEN "" ELSE seg[1]

Segments(s) == [k \in 1..Len(SplitSlash(s)) |-> SegName(SplitSlash(s)[k])]

\* segments.join('/')
RECURSIVE JoinSlash(_)
JoinSlash(segs) ==
  IF segs = <<>> THEN <<>>
  ELSE IF Len(segs) = 1 THEN << segs[1] >>
  ELSE << segs[1], "/" >> \o JoinSlash(Tail(segs))

\* --------------------------------------------------- node's path module
\* normalizeString of path.posix: "" and "." are dropped, ".." removes the
\* previous segment and stays at the root of an absolute path.
RECURSIVE NormalizeAbs(_, _)
NormalizeAbs(acc, segs) ==
  IF segs = <<>> THEN acc
  ELSE LET s == Head(segs)
       IN  IF s = "" \/ s = "." THEN NormalizeAbs(acc, Tail(segs))
           ELSE IF s = ".." THEN
             NormalizeAbs(IF acc = <<>> THEN acc ELSE Front(acc), Tail(segs))
           ELSE NormalizeAbs(Append(acc, s), Tail(segs))

\* resolve(fileDir, pathPart), fileDir absolute: an absolute pathPart
\* replaces fileDir, a relative one is appended; the result is normalized.
resolve(fileDir, pathPart) ==
  IF StartsWithSlash(pathPart) THEN NormalizeAbs(<<>>, Segments(pathPart))
  ELSE NormalizeAbs(fileDir, Segments(pathPart))

\* join(docsPath, pathPart): concatenation with "/" and normalization.
join(docsPath, pathPart) == NormalizeAbs(docsPath, Segments(pathPart))

\* dirname(file) of an absolute file path
dirname(file) == IF file = <<>> THEN <<>> ELSE Front(file)

\* Length of the longest common prefix of two absolute paths.
RECURSIVE CommonLen(_, _)
CommonLen(a, b) ==
  IF a = <<>> \/ b = <<>> THEN 0
  ELSE IF Head(a) = Head(b) THEN 1 + CommonLen(Tail(a), Tail(b))
  ELSE 0

\* relative(from, to) of two absolute paths, as a string.
relative(from, to) ==
  LET k == CommonLen(from, to)
  IN  JoinSlash([m \in 1..(Len(from) - k) |-> ".."] \o SubSeq(to, k + 1, Len(to)))

\* str.replace(/\\/g, '/')
ReplaceBackslash(s) == [k \in 1..Len(s) |-> IF s[k] = "\\" THEN "/" ELSE s[k]]

\* basename(path) of an absolute path
basename(file) == IF file = <<>> THEN "" ELSE Last(file)

\* ------------------------------------------------------------ the corpus
\* The documentation root and the markdown files below it.
docsPath == << "docs" >>

IndexFile == << "docs", "INDEX.md" >>
ApiFile == << "docs", "api", "ref.md" >>
SecFile == << "docs", "security", "auth.md" >>

MarkdownFiles == {IndexFile, ApiFile, SecFile}

\* Other files on the disk, which the enumeration of "**/*.md" leaves out.
OtherFiles == { << "docs", "api", "logo.png" >> }

Directories ==
  {SubSeq(f, 1, k) : f \in MarkdownFiles \cup OtherFiles, k \in 0..2} \ (MarkdownFiles \cup OtherFiles)

\* Link targets as written in the documents.
UrlRel == << "..", "/", "api", "/", "ref.md" >>
UrlAnchor == << "..", "/", "security", "/", "auth.md", "#", "top" >>
UrlAbs == << "/", "api", "/", "ref.md" >>
UrlAbsDot == << "/", ".", "/", "api", "/", "ref.md" >>
UrlPng == << "logo.png" >>
UrlExt == << "https://", "example.com" >>

LinkToken(text, url) == [kind |-> "link", text |-> text, url |-> url]

NewLine == [kind |-> "nl", text |-> "", url |-> <<>>]

\* What a document is made of: inline links and line breaks.
ContentTokens ==
  { LinkToken("API", UrlRel), LinkToken("Auth", UrlAnchor), LinkToken("Ref", UrlAbs),
    LinkToken("Dot", UrlAbsDot), LinkToken("Logo", UrlPng),
    LinkToken("Site", UrlExt), NewLine }

\* A file's content of n tokens.
Contents(n) == [1..n -> ContentTokens]

\* How many tokens each of the three files holds: at most MaxTokens in all.
Lengths ==
  { m \in (0..MaxTokens) \X (0..MaxTokens) \X (0..MaxTokens) : m[1] + m[2] + m[3] <= MaxTokens }

\* Every documentation tree over the three files.
Corpora ==
  UNION { { [f \in MarkdownFiles |->
              CASE f = IndexFile -> a [] f = ApiFile -> b [] OTHER -> c] :
            a \in Contents(m[1]), b \in Contents(m[2]), c \in Contents(m[3]) } :
          m \in Lengths }

Enumerations(S) ==
  { p \in [1..Cardinality(S) -> S] : \A a, b \in 1..Cardinality(S) : a # b => p[a] # p[b] }

\* The orders glob hands the files over in: by path, ascending or descending.
FileOrders == { << IndexFile, ApiFile, SecFile >>, << SecFile, ApiFile, IndexFile >> }

\* --------------------------------------------------------- utils/glob.ts
\* pathExists that knows the enumerated markdown files only.
pathExists_NodesOnly(path) == path \in MarkdownFiles

\* stat() succeeds on every file and directory of the disk.
pathExists(path) == path \in MarkdownFiles \cup OtherFiles \cup Directories

\* ----------------------------------------------------- utils/markdown.ts
\* A target counts as external only by its scheme: an in-page anchor is internal.
isInternalUrl_SchemesOnly(url) ==
  ~ (Len(url) > 0 /\ url[1] \in {"http://", "https://", "mailto:"})

isInternalUrl(url) ==
  ~ (Len(url) > 0 /\ url[1] \in {"http://", "https://", "mailto:", "#"})

\* extractLinks: the links of the content in document order, each with the
\* 1-based number of its line.
RECURSIVE ExtractFrom(_, _)
ExtractFrom(content, lineIndex) ==
  IF content = <<>> THEN <<>>
  ELSE IF Head(content).kind = "nl" THEN ExtractFrom(Tail(content), lineIndex + 1)
  ELSE << [text |-> Head(content).text, url |-> Head(content).url,
           isInternal |-> isInternalUrl(Head(content).url),
           lineNumber |-> lineIndex + 1] >> \o ExtractFrom(Tail(content), lineIndex)

extractLinks(content) == ExtractFrom(content, 0)

\* The text of a document as markdown.utils sees it: a sequence of words and
\* marks, "\n" between two lines.  The number of characters of each:
TokenChars ==
  ("[" :> 1) @@ ("]" :> 1) @@ ("(" :> 1) @@ (")" :> 1) @@ (" " :> 1) @@ ("\"" :> 1) @@ ("\n" :> 1)
  @@ ("#" :> 1) @@ ("/" :> 1) @@ (".." :> 2) @@ ("t" :> 1) @@ ("x" :> 1) @@ ("top" :> 3)
  @@ ("API" :> 3) @@ ("Auth" :> 4) @@ ("Site" :> 4) @@ ("api" :> 3) @@ ("ref.md" :> 6)
  @@ ("security" :> 8) @@ ("auth.md" :> 7) @@ ("u.md" :> 4) @@ ("example.com" :> 11)
  @@ ("https://" :> 8) @@ ("http://" :> 7) @@ ("mailto:" :> 7)

RECURSIVE CharsOf(_)
CharsOf(s) == IF s = <<>> THEN 0 ELSE TokenChars[Head(s)] + CharsOf(Tail(s))

\* The text taken as one line, breaks and all.
SplitLines_Whole(content) == << content >>

\* content.split('\n')
RECURSIVE SplitLines(_)
SplitLines(content) ==
  IF "\n" \notin Range(content) THEN << content >>
  ELSE LET k == IndexOf(content, "\n")
       IN  << SubSeq(content, 1, k - 1) >> \o SplitLines(SubSeq(content, k + 1, Len(content)))

\* The first index of s from p on whose token is in marks, Len(s) + 1 if none.
FirstOf(s, p, marks) ==
  IF \E k \in p..Len(s) : s[k] \in marks
  THEN CHOOSE k \in p..Len(s) : s[k] \in marks /\ \A m \in p..(k - 1) : s[m] \notin marks
  ELSE Len(s) + 1

\* The first index of s from p on whose token is no blank, Len(s) + 1 if none.
FirstNonBlank(s, p) ==
  IF \E k \in p..Len(s) : s[k] # " "
  THEN CHOOSE k \in p..Len(s) : s[k] # " " /\ \A m \in p..(k - 1) : s[m] = " "
  ELSE Len(s) + 1

NoMatch == [found |-> FALSE]

\* linkRegex /\[([^\]]*)\]\(([^)\s]+)(?:\s+"([^"]*)")?\)/ tried at index p of
\* the line: the groups and the index of the closing parenthesis.
LinkMatchAt(line, p) ==
  IF line[p] # "[" THEN NoMatch
  ELSE
    LET q == FirstOf(line, p + 1, {"]"})          \* [^\]]* stops at the first ]
        r == FirstOf(line, q + 2, {")", " "})     \* [^)\s]+ stops at ) or a blank
    IN  IF q + 1 > Len(line) \/ line[q + 1] # "(" THEN NoMatch
        ELSE IF r > Len(line) \/ r = q + 2 THEN NoMatch
        ELSE IF line[r] = ")" THEN
          [found |-> TRUE, text |-> SubSeq(line, p + 1, q - 1),
           url |-> SubSeq(line, q + 2, r - 1), title |-> <<>>, last |-> r]
        ELSE
          LET s == FirstNonBlank(line, r)             \* \s+ then the opening quote
              e == FirstOf(line, s + 1, {"\""})       \* [^"]* stops at the next quote
          IN  IF s > Len(line) \/ line[s] # "\"" THEN NoMatch
              ELSE IF e + 1 > Len(line) \/ line[e + 1] # ")" THEN NoMatch
              ELSE [found |-> TRUE, text |-> SubSeq(line, p + 1, q - 1),
                    url |-> SubSeq(line, q + 2, r - 1),
                    title |-> SubSeq(line, s + 1, e - 1), last |-> e + 1]

\* The link of a match that starts at index p of the line lineIndex.
MarkdownLink(line, p, match, lineIndex) ==
  LET link == [text |-> match.text, url |-> match.url,
               isInternal |-> isInternalUrl(match.url),
               lineNumber |-> lineIndex + 1,
               startIndex |-> CharsOf(SubSeq(line, 1, p - 1)),
               endIndex |-> CharsOf(SubSeq(line, 1, p - 1)) + CharsOf(SubSeq(line, p, match.last))]
  IN  IF match.title # <<>> THEN link @@ [title |-> match.title] ELSE link

\* while ((match = linkRegex.exec(line)) !== null): the leftmost match from
\* lastIndex on, then the next one after its end.
RECURSIVE ExecAll(_, _, _)
ExecAll(line, lastIndex, lineIndex) ==
  LET starts == { p \in lastIndex..Len(line) : LinkMatchAt(line, p).found }
  IN  IF starts = {} THEN <<>>
      ELSE LET p == CHOOSE p \in starts : \A m \in starts : p <= m
               match == LinkMatchAt(line, p)
           IN  << MarkdownLink(line, p, match, lineIndex) >>
               \o ExecAll(line, match.last + 1, lineIndex)

\* lines.forEach((line, lineIndex) => ...)
RECURSIVE ExtractLines(_, _)
ExtractLines(lines, lineIndex) ==
  IF lines = <<>> THEN <<>>
  ELSE ExecAll(Head(lines), 1, lineIndex) \o ExtractLines(Tail(lines), lineIndex + 1)

\* extractLinks of a text
extractLinksIn(content) == ExtractLines(SplitLines(content), 0)

\* extractInternalLinks of a text
extractInternalLinksIn(content) == SelectSeq(extractLinksIn(content), LAMBDA link : link.isInternal)

\* ------------------------------------------------ core/domains/detector
isValidDomain(value) == value \in Range(DOMAINS)

\* DOMAIN_DEFINITIONS[domain].keywords; a keyword is the sequence of its
\* words and of the "-" and "/" between them.
DOMAIN_DEFINITIONS ==
  "security" :> [keywords |-> <<
       <<"security">>, <<"auth">>, <<"authentication">>, <<"authorization">>, <<"oauth">>,
       <<"jwt">>, <<"keycloak">>, <<"vault">>, <<"secrets">>, <<"rls">>, <<"row", "-",
       "level", "-", "security">>, <<"rbac">>, <<"permissions">>, <<"access", "-",
       "control">>, <<"encryption">>, <<"ssl">>, <<"tls">>, <<"certificate">> >>]
  @@ "devops" :> [keywords |-> <<
       <<"devops">>, <<"deployment">>, <<"deploy">>, <<"ci">>, <<"cd">>, <<"ci", "/",
       "cd">>, <<"pipeline">>, <<"docker">>, <<"container">>, <<"kubernetes">>, <<"k8s">>,
       <<"infrastructure">>, <<"terraform">>, <<"ansible">>, <<"aws">>, <<"gcp">>,
       <<"azure">>, <<"cloud">>, <<"environment">>, <<"production">>, <<"staging">>,
       <<"development">>, <<"nginx">>, <<"load", "-", "balancer">>, <<"monitoring">> >>]
  @@ "database" :> [keywords |-> <<
       <<"database">>, <<"db">>, <<"postgres">>, <<"postgresql">>, <<"mysql">>, <<"sql">>,
       <<"schema">>, <<"migration">>, <<"migrations">>, <<"alembic">>, <<"query">>,
       <<"queries">>, <<"table">>, <<"index">>, <<"indexes">>, <<"rls">>, <<"procedure">>,
       <<"function">>, <<"trigger">>, <<"transaction">>, <<"orm">>, <<"sqlalchemy">>,
       <<"prisma">> >>]
  @@ "api" :> [keywords |-> <<
       <<"api">>, <<"endpoint">>, <<"endpoints">>, <<"route">>, <<"routes">>, <<"rest">>,
       <<"restful">>, <<"graphql">>, <<"grpc">>, <<"openapi">>, <<"swagger">>,
       <<"specification">>, <<"contract">>, <<"request">>, <<"response">>, <<"http">>,
       <<"fastapi">>, <<"express">>, <<"flask">>, <<"django">> >>]
  @@ "standards" :> [keywords |-> <<
       <<"standard">>, <<"standards">>, <<"convention">>, <<"conventions">>, <<"pattern">>,
       <<"patterns">>, <<"best", "-", "practice">>, <<"best", "-", "practices">>,
       <<"guideline">>, <<"guidelines">>, <<"style">>, <<"style", "-", "guide">>,
       <<"coding">>, <<"naming">>, <<"formatting">>, <<"linting">>, <<"rules">> >>]
  @@ "testing" :> [keywords |-> <<
       <<"test">>, <<"testing">>, <<"tests">>, <<"unit">>, <<"unit", "-", "test">>,
       <<"integration">>, <<"integration", "-", "test">>, <<"e2e">>, <<"end", "-", "to",
       "-", "end">>, <<"fixture">>, <<"fixtures">>, <<"mock">>, <<"mocking">>, <<"stub">>,
       <<"pytest">>, <<"jest">>, <<"vitest">>, <<"playwright">>, <<"cypress">>,
       <<"coverage">>, <<"tdd">>, <<"bdd">> >>]
  @@ "architecture" :> [keywords |-> <<
       <<"architecture">>, <<"design">>, <<"system">>, <<"system", "-", "design">>,
       <<"pattern">>, <<"patterns">>, <<"microservices">>, <<"monolith">>,
       <<"serverless">>, <<"event", "-", "driven">>, <<"cqrs">>, <<"ddd">>, <<"domain",
       "-", "driven">>, <<"clean", "-", "architecture">>, <<"hexagonal">>, <<"decision">>,
       <<"adr">>, <<"registry">>, <<"diagram">> >>]
  @@ "features" :> [keywords |-> <<
       <<"feature">>, <<"features">>, <<"implementation">>, <<"guide">>, <<"how", "-",
       "to">>, <<"tutorial">>, <<"admin">>, <<"administration">>, <<"dashboard">>,
       <<"ui">>, <<"component">>, <<"module">>, <<"functionality">>, <<"capability">> >>]
  @@ "quickstart" :> [keywords |-> <<
       <<"quickstart">>, <<"quick", "-", "start">>, <<"getting", "-", "started">>,
       <<"setup">>, <<"install">>, <<"installation">>, <<"onboarding">>, <<"developer">>,
       <<"dev">>, <<"workflow">>, <<"start">>, <<"begin">>, <<"intro">>,
       <<"introduction">>, <<"new", "-", "developer">> >>]
  @@ "procedures" :> [keywords |-> <<
       <<"procedure">>, <<"procedures">>, <<"sop">>, <<"standard", "-", "operating", "-",
       "procedure">>, <<"step">>, <<"steps">>, <<"operational">>, <<"operation">>,
       <<"operations">>, <<"runbook">>, <<"playbook">>, <<"checklist">>, <<"process">>,
       <<"manual">> >>]
  @@ "workflows" :> [keywords |-> <<
       <<"workflow">>, <<"workflows">>, <<"process">>, <<"processes">>, <<"flow">>,
       <<"flowchart">>, <<"sequence">>, <<"pipeline">>, <<"automation">>, <<"automated">>,
       <<"multi", "-", "step">>, <<"orchestration">>, <<"state", "-", "machine">> >>]
  @@ "agents" :> [keywords |-> <<
       <<"agent">>, <<"agents">>, <<"ai">>, <<"assistant">>, <<"expert">>,
       <<"specialist">>, <<"llm">>, <<"langchain">>, <<"rag">>, <<"retrieval">>,
       <<"embedding">>, <<"vector">>, <<"prompt">>, <<"orchestration">>, <<"chain">>,
       <<"tool">> >>]
  @@ "backups" :> [keywords |-> <<
       <<"backup">>, <<"backups">>, <<"restore">>, <<"recovery">>, <<"disaster">>,
       <<"disaster", "-", "recovery">>, <<"dr">>, <<"snapshot">>, <<"archive">>,
       <<"retention">>, <<"replication">>, <<"failover">> >>]
  @@ "troubleshooting" :> [keywords |-> <<
       <<"troubleshooting">>, <<"troubleshoot">>, <<"debug">>, <<"debugging">>,
       <<"issue">>, <<"issues">>, <<"problem">>, <<"problems">>, <<"error">>, <<"errors">>,
       <<"fix">>, <<"solution">>, <<"solutions">>, <<"resolve">>, <<"diagnose">>,
       <<"diagnosis">>, <<"log">>, <<"logs">>, <<"faq">> >>]
  @@ "plans" :> [keywords |-> <<
       <<"plan">>, <<"plans">>, <<"planning">>, <<"roadmap">>, <<"proposal">>,
       <<"proposals">>, <<"rfc">>, <<"design", "-", "doc">>, <<"specification">>,
       <<"spec">>, <<"milestone">>, <<"timeline">>, <<"schedule">>, <<"project">>,
       <<"initiative">> >>]

\* keywordMap.set(keyword, [...existing, domain]) for each keyword of ks
RECURSIVE AddKeywords(_, _, _)
AddKeywords(keywordMap, domain, ks) ==
  IF ks = <<>> THEN keywordMap
  ELSE LET keyword == Head(ks)
           at == {k \in 1..Len(keywordMap) : keywordMap[k].keyword = keyword}
       IN  IF at = {} THEN
             AddKeywords(Append(keywordMap, [keyword |-> keyword, domains |-> << domain >>]),
                         domain, Tail(ks))
           ELSE
             AddKeywords([keywordMap EXCEPT ![CHOOSE k \in at : TRUE].domains = Append(@, domain)],
                         domain, Tail(ks))

RECURSIVE AddDomains(_, _)
AddDomains(keywordMap, ds) ==
  IF ds = <<>> THEN keywordMap
  ELSE AddDomains(AddKeywords(keywordMap, Head(ds), DOMAIN_DEFINITIONS[Head(ds)].keywords),
                  Tail(ds))

\* getAllKeywords: keyword -> domains, a Map in insertion order
getAllKeywords == AddDomains(<<>>, DOMAINS)

\* File names that contain a domain id as a substring; every other name of
\* the corpus contains none.
NameHints == { << "api-plans.md", "api" >>, << "api-plans.md", "plans" >> }

NameIncludes(fileName, domain) == << fileName, domain >> \in NameHints

\* A confidence is a number of thousandths; the confidence of an alternative
\* is the quotient num / den of two numbers of thousandths.
Ratio(n, d) == [num |-> n, den |-> d]

\* detectDomainFromPath: the first path segment that is a domain id, else the
\* first domain id the file name contains.
detectDomainFromPath(filePath, docsRoot) ==
  LET parts == Segments(relative(docsRoot, filePath))
      hits == {k \in 1..Len(parts) : parts[k] # "" /\ isValidDomain(parts[k])}
      hints == {k \in 1..Len(DOMAINS) : NameIncludes(basename(filePath), DOMAINS[k])}
      Min(S) == CHOOSE k \in S : \A m \in S : k <= m
      result == [domain |-> Null, confidence |-> 0, method |-> "path",
                 alternativeDomains |-> <<>>]
  IN  IF hits # {} THEN
        [result EXCEPT !.domain = parts[Min(hits)],
                       !.confidence = IF Min(hits) - 1 = 0 THEN 1000
                                      ELSE 900 - (Min(hits) - 1) * 100]
      ELSE IF hints # {} THEN
        [result EXCEPT !.domain = DOMAINS[Min(hints)], !.confidence = 600]
      ELSE result

\* content.toLowerCase(): the upper-case words and their lower-case forms.
UpperWords ==
  [ API |-> "api", Overview |-> "overview", Warning |-> "warning", Notes |-> "notes",
    Api |-> "api", Plans |-> "plans" ]

toLowerCase(content) ==
  [k \in 1..Len(content) |->
     IF content[k] \in DOMAIN UpperWords THEN UpperWords[content[k]] ELSE content[k]]

\* lowerContent.match(/\bkeyword\b/gi): the number of places of the content
\* where the keyword stands as whole words (0 when match returns null).
MatchCount(lowerContent, keyword) ==
  Cardinality({ p \in 1..(Len(lowerContent) - Len(keyword) + 1) :
                  SubSeq(lowerContent, p, p + Len(keyword) - 1) = keyword })

\* domainScores.set(domain, current + count) for each domain of ds
RECURSIVE AddScores(_, _, _)
AddScores(domainScores, ds, count) ==
  IF ds = <<>> THEN domainScores
  ELSE LET domain == Head(ds)
           at == {k \in 1..Len(domainScores) : domainScores[k].domain = domain}
       IN  IF at = {} THEN
             AddScores(Append(domainScores, [domain |-> domain, score |-> count]),
                       Tail(ds), count)
           ELSE
             AddScores([domainScores EXCEPT ![CHOOSE k \in at : TRUE].score = @ + count],
                       Tail(ds), count)

\* The loop over the entries of keywordMap whose keyword matches (matches is
\* not null): domainScores is a Map in insertion order.
RECURSIVE CountKeywords(_, _, _)
CountKeywords(domainScores, lowerContent, matched) ==
  IF matched = <<>> THEN domainScores
  ELSE CountKeywords(AddScores(domainScores, Head(matched).domains,
                               MatchCount(lowerContent, Head(matched).keyword)),
                     lowerContent, Tail(matched))

\* entries.sort((a, b) => b[1] - a[1]): a stable sort, highest score first
RECURSIVE InsertByScore(_, _)
InsertByScore(sorted, e) ==
  IF sorted = <<>> THEN << e >>
  ELSE IF e.score > Head(sorted).score THEN << e >> \o sorted
  ELSE << Head(sorted) >> \o InsertByScore(Tail(sorted), e)

RECURSIVE SortByScore(_)
SortByScore(entries) ==
  IF entries = <<>> THEN <<>>
  ELSE InsertByScore(SortByScore(Front(entries)), Last(entries))

Min2(a, b) == IF a < b THEN a ELSE b

\* detectDomainFromContent that falls back on a default domain.
detectDomainFromContent_Fallback(content) ==
  [domain |-> "features", confidence |-> 500, method |-> "keywords",
   alternativeDomains |-> <<>>]

\* detectDomainFromContent
detectDomainFromContent(content) ==
  LET result == [domain |-> Null, confidence |-> 0, method |-> "content",
                 alternativeDomains |-> <<>>]
      lowerContent == toLowerCase(content)
      domainScores ==
        CountKeywords(<<>>, lowerContent,
                      SelectSeq(getAllKeywords,
                                LAMBDA e : MatchCount(lowerContent, e.keyword) > 0))
      sortedDomains == SortByScore(SelectSeq(domainScores, LAMBDA e : e.score > 0))
  IN  IF Len(sortedDomains) > 0 THEN
        LET maxScore == sortedDomains[1].score
            topDomain == sortedDomains[1].domain
            secondScore == IF Len(sortedDomains) >= 2 THEN sortedDomains[2].score ELSE 0
            scoreDiff == maxScore - secondScore
            \* normalizedScore * 0.3 and scoreDiffFactor, in thousandths
            confidence == Min2(500 + Min2(15 * maxScore, 300) + Min2(100 * scoreDiff, 300), 950)
        IN  [domain |-> topDomain, confidence |-> confidence, method |-> "keywords",
             alternativeDomains |->
               [k \in 1..(Min2(Len(sortedDomains), 4) - 1) |->
                  [domain |-> sortedDomains[k + 1].domain,
                   confidence |-> Ratio(sortedDomains[k + 1].score * confidence * 4,
                                        maxScore * 5)]]]
      ELSE result

\* An optional argument: passed with a value, or not passed.
Passed(v) == [passed |-> TRUE, value |-> v]
Absent == [passed |-> FALSE, value |-> <<>>]

\* detectDomain that asks the content first and the path only without it.
detectDomain_ContentFirst(filePath, content, docsRoot) ==
  IF content.passed /\ detectDomainFromContent(content.value).domain # Null
  THEN detectDomainFromContent(content.value)
  ELSE detectDomainFromPath(filePath, docsRoot)

\* detectDomain
detectDomain(filePath, content, docsRoot) ==
  LET pathResult == detectDomainFromPath(filePath, docsRoot)
  IN  IF pathResult.domain # Null /\ pathResult.confidence >= 900 THEN pathResult
      ELSE IF content.passed /\ content.value # <<>> THEN
        LET contentResult == detectDomainFromContent(content.value)
        IN  IF pathResult.domain # Null THEN
              IF contentResult.confidence > pathResult.confidence THEN
                [contentResult EXCEPT !.alternativeDomains =
                   << [domain |-> pathResult.domain,
                       confidence |-> Ratio(pathResult.confidence, 1)] >> \o @]
              ELSE pathResult
            ELSE contentResult
      ELSE pathResult

\* ---------------------------------------- core/domains/classifier.ts
TIERS == << "guide", "standard", "example", "reference", "admin" >>

\* TIER_DEFINITIONS: the size range in KB, the indicators as sequences of
\* words and blanks, and for each heading pattern /^#+\s*(a|b|...)/i the set
\* of its alternatives, each the start of a heading text.
TIER_DEFINITIONS ==
  "guide" :>
       [sizeRange |-> [min |-> 15, max |-> 30],
        indicators |-> <<
          <<"how", " ", "to">>, <<"step", " ", "by", " ", "step">>, <<"tutorial">>,
          <<"guide">>, <<"walkthrough">>, <<"getting", " ", "started">>, <<"learn">>,
          <<"implement">>, <<"build">>, <<"create">> >>,
        headingPatterns |-> <<
          { <<"prerequisite">>, <<"requirement">> },
          { <<"step", " ", "1">>, <<"first">>, <<"next">>, <<"then">>, <<"finally">> },
          { <<"overview">>, <<"introduction">>, <<"getting", " ", "started">> },
          { <<"example">>, <<"demo">>, <<"try", " ", "it">> } >>]
  @@ "standard" :>
       [sizeRange |-> [min |-> 5, max |-> 15],
        indicators |-> <<
          <<"standard">>, <<"convention">>, <<"rule">>, <<"must">>, <<"should">>,
          <<"must", " ", "not">>, <<"should", " ", "not">>, <<"required">>,
          <<"recommended">>, <<"best", " ", "practice">>, <<"guideline">> >>,
        headingPatterns |-> <<
          { <<"rule">>, <<"guideline">>, <<"convention">> },
          { <<"do">>, <<"don't">>, <<"avoid">>, <<"prefer">> },
          { <<"naming">>, <<"formatting">>, <<"style">> },
          { <<"required">>, <<"recommended">>, <<"optional">> } >>]
  @@ "example" :>
       [sizeRange |-> [min |-> 3, max |-> 10],
        indicators |-> <<
          <<"example">>, <<"sample">>, <<"template">>, <<"snippet">>, <<"code">>,
          <<"demo">>, <<"showcase">>, <<"pattern", " ", "example">>, <<"usage", " ",
          "example">> >>,
        headingPatterns |-> <<
          { <<"example">>, <<"sample">>, <<"template">> },
          { <<"code">>, <<"snippet">>, <<"usage">> },
          { <<"input">>, <<"output">>, <<"result">> } >>]
  @@ "reference" :>
       [sizeRange |-> [min |-> 30, max |-> 100],
        indicators |-> <<
          <<"reference">>, <<"specification">>, <<"api">>, <<"complete">>,
          <<"comprehensive">>, <<"all">>, <<"full", " ", "list">>, <<"documentation">>,
          <<"schema">>, <<"interface">> >>,
        headingPatterns |-> <<
          { <<"api">>, <<"schema">>, <<"interface">>, <<"type">> },
          { <<"parameter">>, <<"argument">>, <<"option">> },
          { <<"method">>, <<"function">>, <<"endpoint">> },
          { <<"properties">>, <<"fields">>, <<"attributes">> } >>]
  @@ "admin" :>
       [sizeRange |-> [min |-> 10, max |-> 20],
        indicators |-> <<
          <<"admin">>, <<"administrative">>, <<"operational">>, <<"maintenance">>,
          <<"ops">>, <<"manage">>, <<"configure">>, <<"setup">>, <<"deployment">>,
          <<"monitoring">> >>,
        headingPatterns |-> <<
          { <<"configuration">>, <<"setup">>, <<"installation">> },
          { <<"maintenance">>, <<"monitoring">>, <<"logging">> },
          { <<"backup">>, <<"restore">>, <<"recovery">> },
          { <<"troubleshooting">>, <<"debugging">> } >>]

RECURSIVE SumSeq(_)
SumSeq(numbers) ==
  IF numbers = <<>> THEN 0 ELSE Head(numbers) + SumSeq(Tail(numbers))

\* A document is a sequence of runs: a line, and the number of times it
\* stands in a row.  A line is the sequence of its words, marks and blanks.
Lines(content) ==
  IF content = <<>> THEN 1
  ELSE SumSeq([k \in 1..Len(content) |-> content[k].times])

\* The number of bytes of a word or mark; the pad is a word of 1023 letters,
\* the fence the three backquotes that open or close a code block.
Pad == "x...x"
Fence == "fence"

TokenBytes ==
  (" " :> 1) @@ ("#" :> 1) @@ ("-" :> 1) @@ ("|" :> 1) @@ (">" :> 1) @@ ("**" :> 2)
  @@ (Fence :> 3) @@ ("API" :> 3) @@ ("item" :> 4) @@ ("example" :> 7)
  @@ ("Warning" :> 7) @@ ("Overview" :> 8) @@ ("standard" :> 8) @@ (Pad :> 1023)

RECURSIVE LineBytes(_)
LineBytes(line) ==
  IF line = <<>> THEN 0 ELSE TokenBytes[Head(line)] + LineBytes(Tail(line))

\* Over the lines of the document, the sum of PerLine(line).
SumOverLines(content, PerLine(_)) ==
  SumSeq([k \in 1..Len(content) |-> content[k].times * PerLine(content[k].line)])

\* Buffer.byteLength(content, 'utf8'): the lines and the newlines between them
byteLength(content) == SumOverLines(content, LineBytes) + (Lines(content) - 1)

\* Words of the documents that start with another word.
WordPrefixes == { << "apis", "api" >>, << "examples", "example" >> }

HasPrefix(word, prefix) == word = prefix \/ << word, prefix >> \in WordPrefixes

\* The tokens of s after its leading blanks (\s*).
RECURSIVE SkipBlanks(_)
SkipBlanks(s) ==
  IF s # <<>> /\ Head(s) = " " THEN SkipBlanks(Tail(s)) ELSE s

\* text starts with the alternative alt of a pattern, whatever the case
StartsWithAlt(text, alt) ==
  /\ Len(text) >= Len(alt)
  /\ \A k \in 1..(Len(alt) - 1) : toLowerCase(text)[k] = alt[k]
  /\ HasPrefix(toLowerCase(text)[Len(alt)], alt[Len(alt)])

\* /^#+\s*(a|b|...)/im matches the line
HeadingMatch(line, pattern) ==
  IF /\ line # <<>>
     /\ Head(line) \in {"#", "##", "###"}
     /\ \E alt \in pattern : StartsWithAlt(SkipBlanks(Tail(line)), alt)
  THEN 1 ELSE 0

\* /^[\s]*[-*\d.]+\s/m matches the line
ListItemMatch(line) ==
  LET s == SkipBlanks(line)
  IN  IF Len(s) >= 2 /\ s[1] \in {"-", "*", "**", "1."} /\ s[2] = " " THEN 1 ELSE 0

\* /^\|.*\|$/m matches the line
TableMatch(line) ==
  IF Len(line) >= 2 /\ Head(line) = "|" /\ Last(line) = "|" THEN 1 ELSE 0

\* the fences of the line
FenceCount(line) == Cardinality({ p \in 1..Len(line) : line[p] = Fence })

\* the matches of />\s*\*\*(warning|note|caution|important)/gi in the line
WarningCount(line) ==
  Cardinality({ p \in 1..Len(line) :
    /\ line[p] = ">"
    /\ LET s == SkipBlanks(SubSeq(line, p + 1, Len(line)))
       IN  /\ Len(s) >= 2
           /\ s[1] = "**"
           /\ \E w \in {"warning", "note", "caution", "important"} :
                HasPrefix(toLowerCase(s)[2], w) })

\* The loop over def.indicators: for each indicator the number of its
\* whole-word matches in the lower-cased document.
IndicatorMatches(content, tier) ==
  LET indicators == TIER_DEFINITIONS[tier].indicators
  IN  [k \in 1..Len(indicators) |->
         LET Count(line) == MatchCount(toLowerCase(line), indicators[k])
         IN  SumOverLines(content, Count)]

\* The loop over def.headingPatterns: for each pattern the number of lines it
\* matches.
HeadingMatches(content, tier) ==
  LET patterns == TIER_DEFINITIONS[tier].headingPatterns
  IN  [k \in 1..Len(patterns) |->
         LET Count(line) == HeadingMatch(line, patterns[k])
         IN  SumOverLines(content, Count)]

\* sizeKB >= def.sizeRange.min && sizeKB <= def.sizeRange.max, sizeKB being
\* bytes / 1024
SizeMatches(bytes, tier) ==
  LET def == TIER_DEFINITIONS[tier]
  IN  bytes >= def.sizeRange.min * 1024 /\ bytes <= def.sizeRange.max * 1024

\* One pass of the loop over TIERS: two points for each indicator match, five
\* for each heading match, ten for the size; a reason for each indicator
\* found three times or more, for each matching pattern and for the size.
ScoreTier(content, tier) ==
  LET indicators == IndicatorMatches(content, tier)
      headings == HeadingMatches(content, tier)
      sized == SizeMatches(byteLength(content), tier)
  IN  [points |-> 2 * SumSeq(indicators) + 5 * SumSeq(headings) + (IF sized THEN 10 ELSE 0),
       reasons |->
         [k \in 1..Len(SelectSeq(indicators, LAMBDA n : n >= 3)) |-> << "indicator", tier >>]
         \o [k \in 1..Len(SelectSeq(headings, LAMBDA n : n > 0)) |-> << "heading", tier >>]
         \o (IF sized THEN << << "size", tier >> >> ELSE <<>>)]

\* The reasoning of the loop over TIERS, in the order it is pushed.
RECURSIVE ReasonsOf(_, _)
ReasonsOf(content, tiers) ==
  IF tiers = <<>> THEN <<>>
  ELSE ScoreTier(content, Head(tiers)).reasons \o ReasonsOf(content, Tail(tiers))

\* The additional heuristics: code blocks, list items, tables, warning boxes.
\* codeRatio = (fences / 2) / (lines / 50) > 0.5
HighCodeRatio(content) == 50 * SumOverLines(content, FenceCount) > Lines(content)

\* listRatio = listItems / lines > 0.3
HighListRatio(content) == 10 * SumOverLines(content, ListItemMatch) > 3 * Lines(content)

ManyTables(content) == SumOverLines(content, TableMatch) > 5

ManyWarnings(content) == SumOverLines(content, WarningCount) > 2

HeuristicReasons(content) ==
  (IF HighCodeRatio(content) THEN << << "code", "example" >> >> ELSE <<>>)
  \o (IF HighListRatio(content) THEN << << "list", "guide" >> >> ELSE <<>>)
  \o (IF ManyTables(content) THEN << << "tables", "reference" >> >> ELSE <<>>)
  \o (IF ManyWarnings(content) THEN << << "warnings", "admin" >> >> ELSE <<>>)

\* The scores after the loop over TIERS and the heuristics.
ScoresOf(content) ==
  [guide |-> ScoreTier(content, "guide").points
             + (IF HighListRatio(content) THEN 10 ELSE 0),
   standard |-> ScoreTier(content, "standard").points
                + (IF HighListRatio(content) THEN 8 ELSE 0),
   example |-> ScoreTier(content, "example").points
               + (IF HighCodeRatio(content) THEN 15 ELSE 0),
   reference |-> ScoreTier(content, "reference").points
                 + (IF ManyTables(content) THEN 15 ELSE 0),
   admin |-> ScoreTier(content, "admin").points
             + (IF ManyWarnings(content) THEN 10 ELSE 0)]

\* The loop that finds the winning tier: the first tier of the highest score.
RECURSIVE FindWinner(_, _, _)
FindWinner(best, scores, tiers) ==
  IF tiers = <<>> THEN best
  ELSE FindWinner(IF scores[Head(tiers)] > best.maxScore
                  THEN [maxScore |-> scores[Head(tiers)], winningTier |-> Head(tiers)]
                  ELSE best,
                  scores, Tail(tiers))

\* Object.values(scores).sort((a, b) => b - a)
SortDescending(numbers) ==
  LET sorted == SortByScore([k \in 1..Len(numbers) |-> [score |-> numbers[k]]])
  IN  [k \in 1..Len(numbers) |-> sorted[k].score]

\* TierConfidence that takes the whole top score as the gap.
TierConfidence_NoSecond(scores) ==
  LET topScore == SortDescending([k \in 1..Len(TIERS) |-> scores[TIERS[k]]])[1]
  IN  IF topScore > 0 THEN
        IF 800 * topScore + 2 * topScore * topScore <= 950 * topScore
        THEN Ratio(800 * topScore + 2 * topScore * topScore, topScore)
        ELSE Ratio(950, 1)
      ELSE Ratio(500, 1)

\* The confidence of a classification, in thousandths:
\* min(0.5 + (scoreDiff / topScore) * 0.3 + (topScore / 100) * 0.2, 0.95)
TierConfidence(scores) ==
  LET sortedScores == SortDescending([k \in 1..Len(TIERS) |-> scores[TIERS[k]]])
      topScore == sortedScores[1]
      secondScore == sortedScores[2]
      scoreDiff == topScore - secondScore
  IN  IF topScore > 0 THEN
        IF 500 * topScore + 300 * scoreDiff + 2 * topScore * topScore <= 950 * topScore
        THEN Ratio(500 * topScore + 300 * scoreDiff + 2 * topScore * topScore, topScore)
        ELSE Ratio(950, 1)
      ELSE Ratio(500, 1)

\* classifyTier, the scores being those of ScoresOf(content)
ClassificationOf(content, scores) ==
  [tier |-> FindWinner([maxScore |-> 0, winningTier |-> "guide"], scores, TIERS).winningTier,
   confidence |-> TierConfidence(scores),
   scores |-> scores,
   reasoning |-> ReasonsOf(content, TIERS) \o HeuristicReasons(content)]

classifyTier(content) == ClassificationOf(content, ScoresOf(content))

\* ------------------------------------------ utils/markdown.ts, the text
\* The number of characters of a text of the classifier's words, a line break
\* being one.
RECURSIVE TextChars(_)
TextChars(s) ==
  IF s = <<>> THEN 0
  ELSE (IF Head(s) = "\n" THEN 1 ELSE TokenBytes[Head(s)]) + TextChars(Tail(s))

\* s.trim()
RECURSIVE TrimStart(_)
TrimStart(s) ==
  IF s # <<>> /\ Head(s) \in {" ", "\n"} THEN TrimStart(Tail(s)) ELSE s

RECURSIVE TrimEnd(_)
TrimEnd(s) ==
  IF s # <<>> /\ s[Len(s)] \in {" ", "\n"} THEN TrimEnd(SubSeq(s, 1, Len(s) - 1)) ELSE s

Trim(s) == TrimEnd(TrimStart(s))

HeadingLevels == ("#" :> 1) @@ ("##" :> 2) @@ ("###" :> 3)

\* headingRegex /^(#{1,6})\s+(.+)$/ matches the line
IsHeading(line) ==
  Len(line) >= 3 /\ line[1] \in DOMAIN HeadingLevels /\ line[2] = " "

\* extractHeadings(content)
extractHeadings(content) ==
  LET lines == SplitLines(content)
      matched == SelectSeq([k \in 1..Len(lines) |-> k], LAMBDA k : IsHeading(lines[k]))
  IN  [n \in 1..Len(matched) |->
         [level |-> HeadingLevels[lines[matched[n]][1]],
          text |-> Trim(SubSeq(lines[matched[n]], 3, Len(lines[matched[n]]))),
          lineNumber |-> matched[n]]]

\* extractTitle(content): the text of the first heading of level 1, or null
extractTitle(content) ==
  LET h1 == SelectSeq(extractHeadings(content), LAMBDA h : h.level = 1)
  IN  IF h1 = <<>> THEN Absent ELSE Passed(h1[1].text)

\* text.replace(/fence[\s\S]*?fence/g, ''): every closed code block removed
RECURSIVE StripCodeBlocks(_)
StripCodeBlocks(text) ==
  IF Fence \notin Range(text) THEN text
  ELSE LET open == IndexOf(text, Fence)
           rest == SubSeq(text, open + 1, Len(text))
       IN  IF Fence \notin Range(rest) THEN text
           ELSE SubSeq(text, 1, open - 1)
                \o StripCodeBlocks(SubSeq(rest, IndexOf(rest, Fence) + 1, Len(rest)))

\* What text.replace(/[#*_~\[\]()]/g, ' ') and split(/\s+/) leave no word of.
NoWord == {" ", "\n", "#", "##", "###", "**", "[", "]", "(", ")"}

\* countWords(content): the maximal runs of marks and words that hold no
\* blank and no removed mark, outside the code blocks.
countWords(content) ==
  LET text == StripCodeBlocks(content)
  IN  Cardinality({ k \in 1..Len(text) :
                      text[k] \notin NoWord /\ (k = 1 \/ text[k - 1] \in NoWord) })

\* Math.ceil(wordCount / wordsPerMinute), 200 words a minute
calculateReadTime(content) == (countWords(content) + 199) \div 200

\* formatReadTime(content): the minutes and the unit
formatReadTime(content) ==
  << calculateReadTime(content), IF calculateReadTime(content) = 1 THEN "minute" ELSE "minutes" >>

\* ---------------------------------------- core/metadata/generator.ts
\* The 21 fields of the front matter, and those always regenerated.
MetadataFields ==
  { "title", "tier", "domains", "audience", "tags", "status", "last_updated", "version",
    "purpose", "related_docs", "load_priority", "author", "maintainer", "review_frequency",
    "implementation_status", "tested", "production_ready", "estimated_read_time",
    "word_count", "last_validated", "backlinks" }

\* formatDate(new Date()): the day of the run
Today == "2026-11-06"

\* formatTitleFromFileName(basename(filePath, '.md')): the words of the file
\* name, each with a capital.
FileTitles ==
  ("notes.md" :> << "Notes" >>) @@ ("api-plans.md" :> << "Api", " ", "Plans" >>)

formatTitleFromFileName(fileName) == FileTitles[fileName]

\* lower.includes(part): some word of the text holds the part
Includes(lower, part) ==
  \E k \in 1..Len(lower) : lower[k] = part \/ << lower[k], part >> \in WordPrefixes

IncludesAny(lower, parts) == \E part \in parts : Includes(lower, part)

\* detectAudience(content)
detectAudience(content) ==
  LET lower == toLowerCase(content)
      audiences ==
        (IF IncludesAny(lower, {"developer", "coding", "api"}) THEN << "developers" >> ELSE <<>>)
        \o (IF IncludesAny(lower, {"devops", "deploy", "infrastructure"}) THEN << "devops" >> ELSE <<>>)
        \o (IF IncludesAny(lower, {"admin", "configuration", "management"}) THEN << "admin" >> ELSE <<>>)
  IN  IF Len(audiences) > 0 THEN audiences ELSE << "all" >>

TagKeywords ==
  << << "api" >>, << "rest" >>, << "graphql" >>, << "database" >>, << "postgres" >>,
     << "mysql" >>, << "redis" >>, << "docker" >>, << "kubernetes" >>, << "aws" >>,
     << "gcp" >>, << "azure" >>, << "ci", "/", "cd" >>, << "testing" >>, << "security" >>,
     << "authentication" >>, << "authorization" >>, << "oauth" >>, << "jwt" >>,
     << "react" >>, << "vue" >>, << "angular" >>, << "node" >>, << "python" >>,
     << "typescript" >>, << "javascript" >>, << "fastapi" >>, << "express" >>,
     << "django" >>, << "flask" >>, << "nextjs" >>, << "migration" >>, << "deployment" >>,
     << "monitoring" >>, << "logging" >>, << "caching" >>, << "performance" >> >>

\* extractTags(content): the keywords found at least twice, ten at most
extractTags(content) ==
  LET lower == toLowerCase(content)
      tags == SelectSeq(TagKeywords, LAMBDA keyword : MatchCount(lower, keyword) >= 2)
  IN  [k \in 1..Min2(Len(tags), 10) |-> tags[k][1]]

\* content.replace(/^#+\s+.*$/gm, ''): the heading lines emptied
RECURSIVE JoinLines(_)
JoinLines(lines) ==
  IF lines = <<>> THEN <<>>
  ELSE IF Len(lines) = 1 THEN lines[1]
  ELSE lines[1] \o << "\n" >> \o JoinLines(Tail(lines))

RemoveHeadings(content) ==
  LET lines == SplitLines(content)
  IN  JoinLines([k \in 1..Len(lines) |->
                  IF Len(lines[k]) >= 2 /\ lines[k][1] \in DOMAIN HeadingLevels /\ lines[k][2] = " "
                  THEN <<>> ELSE lines[k]])

\* text.split(/\n\n+/)
RECURSIVE SplitParagraphs(_)
SplitParagraphs(text) ==
  LET breaks == { k \in 1..(Len(text) - 1) : text[k] = "\n" /\ text[k + 1] = "\n" }
  IN  IF breaks = {} THEN << text >>
      ELSE LET k == CHOOSE k \in breaks : \A m \in breaks : k <= m
               after == FirstOf(text, k, { tok \in Range(text) : tok # "\n" })
           IN  << SubSeq(text, 1, k - 1) >> \o SplitParagraphs(SubSeq(text, after, Len(text)))

\* firstParagraph.replace(/\n/g, ' ').replace(/\s+/g, ' ').trim()
Cleaned(paragraph) ==
  LET spaced == [k \in 1..Len(paragraph) |-> IF paragraph[k] = "\n" THEN " " ELSE paragraph[k]]
      kept == SelectSeq([k \in 1..Len(spaced) |-> k],
                        LAMBDA k : spaced[k] # " " \/ k = 1 \/ spaced[k - 1] # " ")
  IN  Trim([n \in 1..Len(kept) |-> spaced[kept[n]]])

\* generatePurpose(content, title): the first paragraph if it reads like a
\* sentence, else a sentence made of the title, else undefined.  The
\* documents of the model carry no front matter.
generatePurpose(content, title) ==
  LET paragraphs == SelectSeq(SplitParagraphs(RemoveHeadings(content)), LAMBDA p : Trim(p) # <<>>)
      usable == /\ paragraphs # <<>>
                /\ TextChars(paragraphs[1]) > 20 /\ TextChars(paragraphs[1]) < 200
                /\ Head(Cleaned(paragraphs[1])) \notin {Fence, "|", "-"}
  IN  IF usable THEN Passed(Cleaned(paragraphs[1]))
      ELSE IF title # <<>> THEN Passed(<< "Documentation", " ", "for", " " >> \o toLowerCase(title))
      ELSE Absent

\* The content as classifyTier reads it: each physical line once.
RECURSIVE OnceEach(_)
OnceEach(lines) ==
  IF lines = <<>> THEN <<>>
  ELSE << [line |-> Head(lines), times |-> 1] >> \o OnceEach(Tail(lines))

RunsOf(content) == OnceEach(SplitLines(content))

\* !existingMetadata[field] for a string, and
\* !existingMetadata[field] || existingMetadata[field].length === 0 for a list:
\* the field is missing or holds the empty string or list.
Missing(existingMetadata, field) ==
  field \notin DOMAIN existingMetadata \/ Len(existingMetadata[field]) = 0

\* generated[field] = value with its entry in _generated
Push(generated, field, value, confidence) ==
  ("_generated" :>
     [fields |-> Append(generated["_generated"].fields, field),
      confidence |-> (field :> confidence) @@ generated["_generated"].confidence])
  @@ (field :> value) @@ generated

\* generated.domains: the domain and its alternates above 0.5, three at most
RECURSIVE AddAlternates(_, _)
AddAlternates(domains, alternativeDomains) ==
  IF alternativeDomains = <<>> THEN domains
  ELSE AddAlternates(
         IF /\ 2 * Head(alternativeDomains).confidence.num > 1000 * Head(alternativeDomains).confidence.den
            /\ Len(domains) < 3
         THEN Append(domains, Head(alternativeDomains).domain) ELSE domains,
         Tail(alternativeDomains))

GenerateTitle(generated, o) ==
  IF Missing(o.existingMetadata, "title")
  THEN LET extractedTitle == extractTitle(o.content)
       IN  Push(generated, "title",
                IF extractedTitle.passed THEN extractedTitle.value
                ELSE formatTitleFromFileName(basename(o.filePath)),
                IF extractedTitle.passed /\ extractedTitle.value # <<>> THEN 900 ELSE 700)
  ELSE generated

GenerateTier(generated, o) ==
  IF Missing(o.existingMetadata, "tier")
  THEN LET tierResult == classifyTier(RunsOf(o.content))
       IN  Push(generated, "tier", tierResult.tier, tierResult.confidence)
  ELSE generated

GenerateDomains(generated, o) ==
  IF Missing(o.existingMetadata, "domains")
  THEN LET domainResult == detectDomain(o.filePath, Passed(o.content), o.docsRoot)
       IN  IF domainResult.domain # Null
           THEN Push(generated, "domains",
                     AddAlternates(<< domainResult.domain >>, domainResult.alternativeDomains),
                     domainResult.confidence)
           ELSE generated
  ELSE generated

GenerateAudience(generated, o) ==
  IF Missing(o.existingMetadata, "audience")
  THEN Push(generated, "audience", detectAudience(o.content), 700)
  ELSE generated

GenerateTags(generated, o) ==
  IF Missing(o.existingMetadata, "tags")
  THEN Push(generated, "tags", extractTags(o.content), 600)
  ELSE generated

GenerateStatus(generated, o) ==
  IF Missing(o.existingMetadata, "status") THEN Push(generated, "status", "draft", 1000)
  ELSE generated

GenerateLastUpdated(generated, o) ==
  IF Missing(o.existingMetadata, "last_updated") THEN Push(generated, "last_updated", Today, 1000)
  ELSE generated

GenerateVersion(generated, o) ==
  IF Missing(o.existingMetadata, "version") THEN Push(generated, "version", "1.0.0", 1000)
  ELSE generated

\* word_count, estimated_read_time and last_validated, always regenerated
GenerateAlways(generated, o) ==
  Push(Push(Push(generated, "word_count", countWords(o.content), 1000),
            "estimated_read_time", formatReadTime(o.content), 1000),
       "last_validated", Today, 1000)

GeneratePurposeField(generated, o) ==
  IF Missing(o.existingMetadata, "purpose")
  THEN LET purpose == generatePurpose(o.content,
                        IF "title" \in DOMAIN generated THEN generated["title"] ELSE <<>>)
       IN  IF purpose.passed /\ purpose.value # <<>>
           THEN Push(generated, "purpose", purpose.value, 600)
           ELSE generated
  ELSE generated

\* generateMetadata(options)
generateMetadata(o) ==
  GeneratePurposeField(
    GenerateAlways(
      GenerateVersion(
        GenerateLastUpdated(
          GenerateStatus(
            GenerateTags(
              GenerateAudience(
                GenerateDomains(
                  GenerateTier(
                    GenerateTitle("_generated" :> [fields |-> <<>>, confidence |-> <<>>], o),
                    o), o), o), o), o), o), o), o), o)

\* a ?? b ?? c over the fields of the two records
Coalesce(existing, generatedFields, field, fallback) ==
  IF field \in DOMAIN existing THEN existing[field]
  ELSE IF field \in DOMAIN generatedFields THEN generatedFields[field]
  ELSE fallback

\* The fields with a fallback, and the value of each.
Fallbacks ==
  [ title |-> << "Untitled" >>, tier |-> "guide", domains |-> << "features" >>,
    audience |-> << "all" >>, tags |-> <<>>, status |-> "draft", last_updated |-> Today,
    version |-> "1.0.0" ]

\* The always regenerated fields.
AutoGenerated == { "estimated_read_time", "word_count", "last_validated" }

\* mergeMetadata(existing, generated): a field neither record defines and
\* that has no fallback is undefined, and left out of the result.
mergeMetadata(existing, generated) ==
  LET generatedFields == [f \in DOMAIN generated \ {"_generated"} |-> generated[f]]
      defined == { f \in MetadataFields \ (AutoGenerated \cup {"backlinks"}) :
                     f \in DOMAIN existing \cup DOMAIN generatedFields \cup DOMAIN Fallbacks }
  IN  [f \in defined |->
         Coalesce(existing, generatedFields, f,
                  IF f \in DOMAIN Fallbacks THEN Fallbacks[f] ELSE <<>>)]
      @@ [f \in AutoGenerated \cap DOMAIN generatedFields |-> generatedFields[f]]
      @@ ("backlinks" :> IF "backlinks" \in DOMAIN existing THEN existing["backlinks"] ELSE <<>>)

\* ------------------------------------------------------------- the state
VARIABLES
  corpus,        \* file -> content
  unreadable,    \* the files whose readFile rejects
  files,         \* the enumeration of findMarkdownFiles
  pc,            \* position in the run
  i,             \* index of the loop over files
  nodes,         \* buildLinkGraph: the node map, in insertion order
  edges,         \* buildLinkGraph: the edge list
  graphStatus,   \* "running", "returned" or "rejected"
  options,       \* checkLinks: the options of the call
  checkFiles,    \* checkLinks: the files left by the domain filter
  result,        \* checkLinks: the LinkCheckResult
  domainConnections, \* checkLinks: "from -> to" counters, in insertion order
  warnings,      \* logger.warn lines
  orphans,       \* outcome of findOrphanFiles
  matrix,        \* outcome of buildDomainConnectionMatrix
  statistics,    \* outcome of getLinkStatistics
  cycles,        \* outcome of the cycle detection over the link graph
  args,          \* the arguments of the calls of a classification run
  returns,       \* function name -> the value its call returned
  dfs            \* the traversal of a cycle detection run

graphVars == << nodes, edges, graphStatus >>
checkVars == << options, checkFiles, result, domainConnections, warnings >>
inputVars == << corpus, unreadable, files, args, returns, dfs >>
analysisVars == << orphans, matrix, statistics, cycles >>

vars == << corpus, unreadable, files, pc, i, nodes, edges, graphStatus,
           options, checkFiles, result, domainConnections, warnings,
           orphans, matrix, statistics, cycles, args, returns, dfs >>

\* The variables of the link run, left alone by the classification runs.
linkVars == << corpus, unreadable, files, pc, i, nodes, edges, graphStatus,
               options, checkFiles, result, domainConnections, warnings,
               orphans, matrix, statistics, cycles >>

\* An operation that has not run yet, and one whose promise rejected.
NotRun == [status |-> "none"]
Returned(v) == [status |-> "returned", value |-> v]

EmptyResult ==
  [totalFiles |-> 0, totalLinks |-> 0, validLinks |-> 0,
   brokenLinks |-> <<>>, crossDomainLinks |-> <<>>, externalLinks |-> <<>>,
   stats |-> [internalLinks |-> 0, externalLinks |-> 0, crossDomainLinks |-> 0,
              brokenPercentage |-> << 0, 1 >>, topConnectedDomains |-> <<>>]]

\* Nothing of the link run has happened yet.
Fresh ==
  /\ i = 1
  /\ nodes = <<>>
  /\ edges = <<>>
  /\ graphStatus = "running"
  /\ options = [domain |-> Null, silent |-> FALSE]
  /\ checkFiles = <<>>
  /\ result = EmptyResult
  /\ domainConnections = <<>>
  /\ warnings = <<>>
  /\ orphans = NotRun
  /\ matrix = NotRun
  /\ statistics = NotRun
  /\ cycles = NotRun

\* No classification call is made, no traversal is under way.
NoArgs == [none |-> TRUE]
NoTraversal == [phase |-> "none"]

Init ==
  /\ corpus \in Corpora
  /\ unreadable \in {S \in SUBSET MarkdownFiles : Cardinality(S) <= MaxUnreadable}
  /\ files \in FileOrders
  /\ pc = "nodes"
  /\ Fresh
  /\ args = NoArgs
  /\ returns = <<>>
  /\ dfs = NoTraversal

\* The link run does not start.
Parked ==
  /\ corpus = [f \in MarkdownFiles |-> <<>>]
  /\ unreadable = {}
  /\ files = <<>>
  /\ pc = "none"
  /\ Fresh

\* A run that only classifies: no link run, no traversal.
NoLinkRun == Parked /\ dfs = NoTraversal

\* ------------------------------------------- core/links/tracker.ts
NodeIndex(ns, key) ==
  IF \E k \in 1..Len(ns) : ns[k].id = key
  THEN CHOOSE k \in 1..Len(ns) : ns[k].id = key
  ELSE 0

NodesHas(ns, key) == NodeIndex(ns, key) # 0

\* Map.set: a new key is appended, an existing key keeps its position.
NodesSet(ns, key, node) ==
  IF NodesHas(ns, key) THEN [ns EXCEPT ![NodeIndex(ns, key)] = node]
  ELSE Append(ns, node)

\* The node of a file, as the first pass creates it.
NewNode(file) ==
  [id |-> relative(docsPath, file), path |-> relative(docsPath, file),
   domain |-> detectDomainFromPath(file, docsPath).domain,
   inDegree |-> 0, outDegree |-> 0]

\* First pass of buildLinkGraph, one file.
CreateNode ==
  /\ pc = "nodes"
  /\ nodes' = NodesSet(nodes, relative(docsPath, files[i]), NewNode(files[i]))
  /\ IF i = Len(files) THEN pc' = "edges" /\ i' = 1
     ELSE pc' = "nodes" /\ i' = i + 1
  /\ UNCHANGED << inputVars, edges, graphStatus, checkVars, analysisVars >>

\* The target of an internal link as buildLinkGraph computes it.
GraphTarget(url, fileDir) ==
  LET pathPart == BeforeHash(url)
  IN  ReplaceBackslash(
        IF StartsWithSlash(pathPart) THEN Tail(pathPart)
        ELSE relative(docsPath, resolve(fileDir, pathPart)))

\* AddLink with a single pass over the files: a target counts as known only
\* once its own file has been reached.
AddLink_SinglePass(g, link, relPath, fileDir) ==
  IF ~ link.isInternal \/ BeforeHash(link.url) = <<>> THEN g
  ELSE LET targetPath == GraphTarget(link.url, fileDir)
       IN  IF NodesHas(SubSeq(g.nodes, 1, NodeIndex(g.nodes, relPath)), targetPath) THEN
             [nodes |-> [k \in 1..Len(g.nodes) |->
                           [g.nodes[k] EXCEPT
                              !.outDegree = IF g.nodes[k].id = relPath THEN @ + 1 ELSE @,
                              !.inDegree = IF g.nodes[k].id = targetPath THEN @ + 1 ELSE @]],
              edges |-> Append(g.edges,
                          [source |-> relPath, target |-> targetPath,
                           linkText |-> link.text, lineNumber |-> link.lineNumber])]
           ELSE g

\* AddLink that creates the node of a target it does not know.
AddLink_CreatesTarget(g, link, relPath, fileDir) ==
  IF ~ link.isInternal \/ BeforeHash(link.url) = <<>> THEN g
  ELSE LET targetPath == GraphTarget(link.url, fileDir)
           known == IF NodesHas(g.nodes, targetPath) THEN g.nodes
                    ELSE Append(g.nodes,
                           [id |-> targetPath, path |-> targetPath, domain |-> Null,
                            inDegree |-> 0, outDegree |-> 0])
       IN  [nodes |-> [k \in 1..Len(known) |->
                         [known[k] EXCEPT
                            !.outDegree = IF known[k].id = relPath THEN @ + 1 ELSE @,
                            !.inDegree = IF known[k].id = targetPath THEN @ + 1 ELSE @]],
            edges |-> Append(g.edges,
                        [source |-> relPath, target |-> targetPath,
                         linkText |-> link.text, lineNumber |-> link.lineNumber])]

\* AddLink that keeps one edge for each pair of source and target.
AddLink_Deduplicated(g, link, relPath, fileDir) ==
  IF ~ link.isInternal \/ BeforeHash(link.url) = <<>> THEN g
  ELSE LET targetPath == GraphTarget(link.url, fileDir)
       IN  IF /\ NodesHas(g.nodes, targetPath)
              /\ \A k \in 1..Len(g.edges) :
                   g.edges[k].source # relPath \/ g.edges[k].target # targetPath
           THEN
             [nodes |-> [k \in 1..Len(g.nodes) |->
                           [g.nodes[k] EXCEPT
                              !.outDegree = IF g.nodes[k].id = relPath THEN @ + 1 ELSE @,
                              !.inDegree = IF g.nodes[k].id = targetPath THEN @ + 1 ELSE @]],
              edges |-> Append(g.edges,
                          [source |-> relPath, target |-> targetPath,
                           linkText |-> link.text, lineNumber |-> link.lineNumber])]
           ELSE g

\* The body of the loop over the links of one file.
AddLink(g, link, relPath, fileDir) ==
  IF ~ link.isInternal \/ BeforeHash(link.url) = <<>> THEN g
  ELSE LET targetPath == GraphTarget(link.url, fileDir)
       IN  IF NodesHas(g.nodes, targetPath) THEN
             LET n1 == [k \in 1..Len(g.nodes) |->
                          IF g.nodes[k].id = relPath
                          THEN [g.nodes[k] EXCEPT !.outDegree = @ + 1]
                          ELSE g.nodes[k]]
                 n2 == [k \in 1..Len(n1) |->
                          IF n1[k].id = targetPath
                          THEN [n1[k] EXCEPT !.inDegree = @ + 1]
                          ELSE n1[k]]
             IN  [nodes |-> n2,
                  edges |-> Append(g.edges,
                              [source |-> relPath, target |-> targetPath,
                               linkText |-> link.text, lineNumber |-> link.lineNumber])]
           ELSE g

RECURSIVE AddLinks(_, _, _, _)
AddLinks(g, links, relPath, fileDir) ==
  IF links = <<>> THEN g
  ELSE AddLinks(AddLink(g, Head(links), relPath, fileDir), Tail(links), relPath, fileDir)

\* Second pass of buildLinkGraph, one file: readFile, then the links.
ScanFile ==
  /\ pc = "edges"
  /\ LET file == files[i]
     IN  IF file \in unreadable THEN
           \* readFile rejects and nothing catches it
           \* so no graph reaches the analyses
           /\ graphStatus' = "rejected"
           /\ pc' = "links"
           /\ UNCHANGED << i, nodes, edges >>
         ELSE
           LET g == AddLinks([nodes |-> nodes, edges |-> edges],
                             extractLinks(corpus[file]),
                             relative(docsPath, file), dirname(file))
           IN  /\ nodes' = g.nodes
               /\ edges' = g.edges
               /\ IF i = Len(files)
                  THEN pc' = "orphans" /\ i' = 1 /\ graphStatus' = "returned"
                  ELSE pc' = "edges" /\ i' = i + 1 /\ UNCHANGED graphStatus
  /\ UNCHANGED << inputVars, checkVars, analysisVars >>

\* The graph buildLinkGraph returns.
Graph == [nodes |-> nodes, edges |-> edges]

\* graph.nodes.find((n) => n.id === id); every edge end is a node
FindNode(g, id) == g.nodes[NodeIndex(g.nodes, id)]

\* findOrphanFiles filtering on the outbound degree.
OrphanFilesOf_OutDegree(g) ==
  LET kept == SelectSeq(g.nodes,
                LAMBDA n : n.outDegree = 0 /\ Last(Segments(n.path)) \notin StructuralNames)
  IN  [k \in 1..Len(kept) |-> kept[k].path]

\* findOrphanFiles on the graph g.
OrphanFilesOf(g) ==
  LET kept == SelectSeq(g.nodes,
                LAMBDA n : n.inDegree = 0 /\ Last(Segments(n.path)) \notin StructuralNames)
  IN  [k \in 1..Len(kept) |-> kept[k].path]

FindOrphanFiles ==
  /\ pc = "orphans"
  /\ orphans' = Returned(OrphanFilesOf(Graph))
  /\ pc' = "matrix"
  /\ UNCHANGED << inputVars, i, graphVars, checkVars, matrix, statistics, cycles >>

\* buildDomainConnectionMatrix: the loop over the edges; m = [matrix, total].
RECURSIVE CountConnections(_, _, _)
CountConnections(m, g, es) ==
  IF es = <<>> THEN m
  ELSE LET sourceNode == FindNode(g, Head(es).source)
           targetNode == FindNode(g, Head(es).target)
           sourceIdx == IndexOf(DOMAINS, sourceNode.domain)
           targetIdx == IndexOf(DOMAINS, targetNode.domain)
       IN  IF sourceNode.domain # Null /\ targetNode.domain # Null
              /\ sourceIdx # 0 /\ targetIdx # 0
           THEN CountConnections(
                  [matrix |-> [m.matrix EXCEPT ![sourceIdx][targetIdx] = @ + 1],
                   totalConnections |-> m.totalConnections + 1], g, Tail(es))
           ELSE CountConnections(m, g, Tail(es))

DomainConnectionMatrixOf(g) ==
  LET m == CountConnections(
             [matrix |-> [r \in 1..Len(DOMAINS) |-> [c \in 1..Len(DOMAINS) |-> 0]],
              totalConnections |-> 0], g, g.edges)
  IN  [domains |-> DOMAINS, matrix |-> m.matrix, totalConnections |-> m.totalConnections]

BuildDomainConnectionMatrix ==
  /\ pc = "matrix"
  /\ matrix' = Returned(DomainConnectionMatrixOf(Graph))
  /\ pc' = "stats"
  /\ UNCHANGED << inputVars, i, graphVars, checkVars, orphans, statistics, cycles >>

RECURSIVE SumOf(_, _)
SumOf(ns, field) ==
  IF ns = <<>> THEN 0 ELSE ns[1][field] + SumOf(Tail(ns), field)

\* The edges of g whose ends have different non-null domains.
CrossDomainEdgesOf(g) ==
  SelectSeq(g.edges,
    LAMBDA e : /\ FindNode(g, e.source).domain # Null
               /\ FindNode(g, e.target).domain # Null
               /\ FindNode(g, e.source).domain # FindNode(g, e.target).domain)

\* getLinkStatistics on the graph g; quotients are pairs << dividend, divisor >>.
LinkStatisticsOf(g) ==
  LET n == Len(g.nodes)
  IN  [totalNodes |-> n,
       totalEdges |-> Len(g.edges),
       avgInDegree |-> IF n > 0 THEN << SumOf(g.nodes, "inDegree"), n >> ELSE << 0, 1 >>,
       avgOutDegree |-> IF n > 0 THEN << SumOf(g.nodes, "outDegree"), n >> ELSE << 0, 1 >>,
       orphanCount |-> Len(SelectSeq(g.nodes, LAMBDA x : x.inDegree = 0)),
       hubCount |-> Len(SelectSeq(g.nodes, LAMBDA x : x.inDegree >= 5 \/ x.outDegree >= 5)),
       crossDomainPercentage |->
         IF Len(g.edges) > 0 THEN << Len(CrossDomainEdgesOf(g)) * 100, Len(g.edges) >>
         ELSE << 0, 1 >>]

GetLinkStatistics ==
  /\ pc = "stats"
  /\ statistics' = Returned(LinkStatisticsOf(Graph))
  /\ pc' = "cycles"
  /\ UNCHANGED << inputVars, i, graphVars, checkVars, orphans, matrix, cycles >>

\* ----------------------------------- core/discover/dependencies.ts
\* A graph is a Map from a file to the Set of the files it refers to, both
\* in insertion order: a sequence of entries [key, imports].
GraphKeys(graph) == [k \in 1..Len(graph) |-> graph[k].key]

\* graph.get(node) ?? new Set()
GraphGet(graph, node) ==
  IF \E k \in 1..Len(graph) : graph[k].key = node
  THEN graph[CHOOSE k \in 1..Len(graph) : graph[k].key = node].imports
  ELSE <<>>

\* dfs(node, path) and its loop over the imports of a node;
\* st = [visited, recursionStack, cycles].
RECURSIVE Dfs(_, _, _, _), DfsEach(_, _, _, _)
\* dfs that looks at the visited set before the recursion stack.
Dfs_VisitedFirst(graph, st, node, path) ==
  IF node \in st.visited THEN st
  ELSE IF node \in st.recursionStack THEN
    LET cycleStart == IndexOf(path, node)
    IN  IF cycleStart # 0
        THEN [st EXCEPT !.cycles = Append(@, [files |-> SubSeq(path, cycleStart, Len(path))])]
        ELSE st
  ELSE LET st1 == [st EXCEPT !.visited = @ \cup {node}, !.recursionStack = @ \cup {node}]
           st2 == DfsEach(graph, st1, GraphGet(graph, node), Append(path, node))
       IN  [st2 EXCEPT !.recursionStack = @ \ {node}]

Dfs(graph, st, node, path) ==
  IF node \in st.recursionStack THEN
    LET cycleStart == IndexOf(path, node)
    IN  IF cycleStart # 0
        THEN [st EXCEPT !.cycles = Append(@, [files |-> SubSeq(path, cycleStart, Len(path))])]
        ELSE st
  ELSE IF node \in st.visited THEN st
  ELSE LET st1 == [st EXCEPT !.visited = @ \cup {node}, !.recursionStack = @ \cup {node}]
           st2 == DfsEach(graph, st1, GraphGet(graph, node), Append(path, node))
       IN  [st2 EXCEPT !.recursionStack = @ \ {node}]

DfsEach(graph, st, imports, path) ==
  IF imports = <<>> THEN st
  ELSE DfsEach(graph, Dfs(graph, st, Head(imports), path), Tail(imports), path)

\* for (const node of graph.keys()) if (!visited.has(node)) dfs(node, [])
RECURSIVE DfsFrom(_, _, _)
DfsFrom(graph, st, keys) ==
  IF keys = <<>> THEN st
  ELSE DfsFrom(graph,
               IF Head(keys) \in st.visited THEN st ELSE Dfs(graph, st, Head(keys), <<>>),
               Tail(keys))

\* The order of Array.prototype.sort() on the paths of the corpus.
SortedPaths ==
  << << "INDEX.md" >>, << "api", "/", "ref.md" >>, << "security", "/", "auth.md" >> >>

PathBefore(a, b) == IndexOf(SortedPaths, a) < IndexOf(SortedPaths, b)

RECURSIVE InsertPath(_, _)
InsertPath(sorted, x) ==
  IF sorted = <<>> THEN << x >>
  ELSE IF PathBefore(x, Head(sorted)) THEN << x >> \o sorted
  ELSE << Head(sorted) >> \o InsertPath(Tail(sorted), x)

RECURSIVE SortPaths(_)
SortPaths(s) == IF s = <<>> THEN <<>> ELSE InsertPath(SortPaths(Front(s)), Last(s))

\* [...cycle.files].sort().join('->')
CycleKey(cycle) == SortPaths(cycle.files)

\* The first cycle of each key, in the order of detection.
RECURSIVE Deduplicate(_, _, _)
Deduplicate(cs, seen, unique) ==
  IF cs = <<>> THEN unique
  ELSE IF CycleKey(Head(cs)) \in seen THEN Deduplicate(Tail(cs), seen, unique)
  ELSE Deduplicate(Tail(cs), seen \cup {CycleKey(Head(cs))}, Append(unique, Head(cs)))

detectCircularDependencies(graph) ==
  LET st == DfsFrom(graph, [visited |-> {}, recursionStack |-> {}, cycles |-> <<>>],
                    GraphKeys(graph))
      uniqueCycles == Deduplicate(st.cycles, {}, <<>>)
  IN  SubSeq(uniqueCycles, 1, IF Len(uniqueCycles) < 10 THEN Len(uniqueCycles) ELSE 10)

\* The link graph as a Map from each document to the Set of its targets.
RECURSIVE DistinctTargets(_, _, _)
DistinctTargets(es, source, acc) ==
  IF es = <<>> THEN acc
  ELSE IF Head(es).source = source /\ Head(es).target \notin Range(acc)
       THEN DistinctTargets(Tail(es), source, Append(acc, Head(es).target))
       ELSE DistinctTargets(Tail(es), source, acc)

LinkAdjacency(g) ==
  [k \in 1..Len(g.nodes) |->
     [key |-> g.nodes[k].id, imports |-> DistinctTargets(g.edges, g.nodes[k].id, <<>>)]]

DetectCycles ==
  /\ pc = "cycles"
  /\ cycles' = Returned(detectCircularDependencies(LinkAdjacency(Graph)))
  /\ pc' = "links"
  /\ UNCHANGED << inputVars, i, graphVars, checkVars, orphans, matrix, statistics >>

\* ------------------------------------------- core/links/checker.ts
\* resolveLink: the absolute path a link points to.
resolveLink(linkUrl, fileDir, docsRoot) ==
  LET pathPart == BeforeHash(linkUrl)
  IN  IF pathPart = <<>> THEN fileDir
      ELSE IF StartsWithSlash(pathPart) THEN join(docsRoot, pathPart)
      ELSE resolve(fileDir, pathPart)

\* domainConnections.set(connKey, (domainConnections.get(connKey) ?? 0) + 1)
BumpConnection(conns, from, to) ==
  IF \E k \in 1..Len(conns) : conns[k].from = from /\ conns[k].to = to
  THEN [k \in 1..Len(conns) |->
          IF conns[k].from = from /\ conns[k].to = to
          THEN [conns[k] EXCEPT !.count = @ + 1] ELSE conns[k]]
  ELSE Append(conns, [from |-> from, to |-> to, count |-> 1])

\* CheckLink reporting a broken target without its anchor.
CheckLink_StrippedTarget(c, link, file) ==
  LET r == c.result
      relFile == relative(docsPath, file)
      r1 == [r EXCEPT !.totalLinks = @ + 1]
  IN  IF link.isInternal THEN
        LET r2 == [r1 EXCEPT !.stats.internalLinks = @ + 1]
            targetPath == resolveLink(link.url, dirname(file), docsPath)
        IN  IF ~ pathExists(targetPath) THEN
              [c EXCEPT !.result =
                 [r2 EXCEPT !.brokenLinks = Append(@,
                    [sourceFile |-> relFile, targetPath |-> BeforeHash(link.url),
                     lineNumber |-> link.lineNumber, linkText |-> link.text,
                     reason |-> "Target file does not exist"])]]
            ELSE
              LET r3 == [r2 EXCEPT !.validLinks = @ + 1]
                  sourceDomain == detectDomainFromPath(file, docsPath).domain
                  targetDomain == detectDomainFromPath(targetPath, docsPath).domain
              IN  IF sourceDomain # Null /\ targetDomain # Null /\ sourceDomain # targetDomain
                  THEN [result |->
                          [r3 EXCEPT !.stats.crossDomainLinks = @ + 1,
                                     !.crossDomainLinks = Append(@,
                                        [sourceFile |-> relFile, sourceDomain |-> sourceDomain,
                                         targetPath |-> link.url, targetDomain |-> targetDomain,
                                         linkText |-> link.text])],
                        conns |-> BumpConnection(c.conns, sourceDomain, targetDomain)]
                  ELSE [c EXCEPT !.result = r3]
      ELSE
        [c EXCEPT !.result =
           [r1 EXCEPT !.stats.externalLinks = @ + 1,
                      !.externalLinks = Append(@,
                         [sourceFile |-> relFile, url |-> link.url, linkText |-> link.text])]]

\* CheckLink counting a broken link among the valid ones as well.
CheckLink_BrokenCountedValid(c, link, file) ==
  LET d == CheckLink_StrippedTarget(c, link, file)
  IN  IF Len(d.result.brokenLinks) > Len(c.result.brokenLinks)
      THEN [d EXCEPT !.result.validLinks = @ + 1]
      ELSE d

\* The body of the loop over the links of one file; c = [result, conns].
CheckLink(c, link, file) ==
  LET r == c.result
      relFile == relative(docsPath, file)
      r1 == [r EXCEPT !.totalLinks = @ + 1]
  IN  IF link.isInternal THEN
        LET r2 == [r1 EXCEPT !.stats.internalLinks = @ + 1]
            targetPath == resolveLink(link.url, dirname(file), docsPath)
        IN  IF ~ pathExists(targetPath) THEN
              [c EXCEPT !.result =
                 [r2 EXCEPT !.brokenLinks = Append(@,
                    [sourceFile |-> relFile, targetPath |-> link.url,
                     lineNumber |-> link.lineNumber, linkText |-> link.text,
                     reason |-> "Target file does not exist"])]]
            ELSE
              LET r3 == [r2 EXCEPT !.validLinks = @ + 1]
                  sourceDomain == detectDomainFromPath(file, docsPath).domain
                  targetDomain == detectDomainFromPath(targetPath, docsPath).domain
              IN  IF sourceDomain # Null /\ targetDomain # Null /\ sourceDomain # targetDomain
                  THEN [result |->
                          [r3 EXCEPT !.stats.crossDomainLinks = @ + 1,
                                     !.crossDomainLinks = Append(@,
                                        [sourceFile |-> relFile, sourceDomain |-> sourceDomain,
                                         targetPath |-> link.url, targetDomain |-> targetDomain,
                                         linkText |-> link.text])],
                        conns |-> BumpConnection(c.conns, sourceDomain, targetDomain)]
                  ELSE [c EXCEPT !.result = r3]
      ELSE
        [c EXCEPT !.result =
           [r1 EXCEPT !.stats.externalLinks = @ + 1,
                      !.externalLinks = Append(@,
                         [sourceFile |-> relFile, url |-> link.url, linkText |-> link.text])]]

RECURSIVE CheckLinksOf(_, _, _)
CheckLinksOf(c, links, file) ==
  IF links = <<>> THEN c
  ELSE CheckLinksOf(CheckLink(c, Head(links), file), Tail(links), file)

\* Array.prototype.sort((a, b) => b.count - a.count): stable, descending.
RECURSIVE InsertByCount(_, _)
InsertByCount(sorted, x) ==
  IF sorted = <<>> THEN << x >>
  ELSE IF Head(sorted).count >= x.count THEN << Head(sorted) >> \o InsertByCount(Tail(sorted), x)
  ELSE << x >> \o sorted

RECURSIVE SortByCount(_)
SortByCount(s) ==
  IF s = <<>> THEN <<>> ELSE InsertByCount(SortByCount(Front(s)), Last(s))

\* The statements after the loop: brokenPercentage and topConnectedDomains.
FinishResult(r, conns) ==
  [r EXCEPT
     !.stats.brokenPercentage =
        IF r.stats.internalLinks > 0
        THEN << Len(r.brokenLinks) * 100, r.stats.internalLinks >> ELSE << 0, 1 >>,
     !.stats.topConnectedDomains =
        SubSeq(SortByCount(conns), 1, IF Len(conns) < 10 THEN Len(conns) ELSE 10)]

\* files.filter(rel.startsWith(domain + '/') || rel.startsWith(domain + '\\'))
InDomainFolder(file, domain) ==
  LET rel == relative(docsPath, file)
  IN  Len(rel) >= 2 /\ rel[1] = domain /\ rel[2] \in {"/", "\\"}

RECURSIVE Filter(_, _)
Filter(fs, domain) ==
  IF fs = <<>> THEN <<>>
  ELSE IF InDomainFolder(Head(fs), domain) THEN << Head(fs) >> \o Filter(Tail(fs), domain)
  ELSE Filter(Tail(fs), domain)

\* checkLinks up to the loop over the files.
StartCheckLinks ==
  /\ pc = "links"
  /\ \E domain \in {Null, "api"}, silent \in BOOLEAN :
       LET fs == IF domain # Null THEN Filter(files, domain) ELSE files
       IN  /\ options' = [domain |-> domain, silent |-> silent]
           /\ checkFiles' = fs
           /\ result' = IF fs = <<>>
                        THEN FinishResult(EmptyResult, <<>>)
                        ELSE [EmptyResult EXCEPT !.totalFiles = Len(fs)]
           /\ pc' = IF fs = <<>> THEN "checked" ELSE "check"
  /\ i' = 1
  /\ domainConnections' = <<>>
  /\ warnings' = <<>>
  /\ UNCHANGED << inputVars, graphVars, analysisVars >>

\* CheckFile with a failure that ends the loop over the files.
CheckFile_Abort ==
  /\ pc = "check"
  /\ LET file == checkFiles[i]
         last == i = Len(checkFiles)
     IN  IF file \in unreadable THEN
           /\ warnings' = IF options.silent THEN warnings
                          ELSE Append(warnings, relative(docsPath, file))
           /\ result' = FinishResult(result, domainConnections)
           /\ UNCHANGED domainConnections
           /\ pc' = "checked"
         ELSE
           LET c == CheckLinksOf([result |-> result, conns |-> domainConnections],
                                 extractLinks(corpus[file]), file)
           IN  /\ result' = IF last THEN FinishResult(c.result, c.conns) ELSE c.result
               /\ domainConnections' = c.conns
               /\ UNCHANGED warnings
               /\ pc' = IF last THEN "checked" ELSE "check"
  /\ i' = i + 1
  /\ UNCHANGED << inputVars, graphVars, options, checkFiles, analysisVars >>

\* One iteration of the loop over the files, with its try/catch; the last
\* iteration runs into the statements after the loop.
CheckFile ==
  /\ pc = "check"
  /\ LET file == checkFiles[i]
         last == i = Len(checkFiles)
     IN  IF file \in unreadable THEN
           /\ warnings' = IF options.silent THEN warnings
                          ELSE Append(warnings, relative(docsPath, file))
           /\ result' = IF last THEN FinishResult(result, domainConnections) ELSE result
           /\ UNCHANGED domainConnections
           /\ pc' = IF last THEN "checked" ELSE "check"
         ELSE
           LET c == CheckLinksOf([result |-> result, conns |-> domainConnections],
                                 extractLinks(corpus[file]), file)
           IN  /\ result' = IF last THEN FinishResult(c.result, c.conns) ELSE c.result
               /\ domainConnections' = c.conns
               /\ UNCHANGED warnings
               /\ pc' = IF last THEN "checked" ELSE "check"
  /\ i' = i + 1
  /\ UNCHANGED << inputVars, graphVars, options, checkFiles, analysisVars >>

Next ==
  \/ CreateNode
  \/ ScanFile
  \/ FindOrphanFiles
  \/ BuildDomainConnectionMatrix
  \/ GetLinkStatistics
  \/ DetectCycles
  \/ StartCheckLinks
  \/ CheckFile

Spec == Init /\ [][Next]_vars

\* ------------------------------------------------- the domain detector run
\* The paths handed to the detector: d directories that name no domain, then
\* one of the tails.
Fillers(d) == [k \in 1..d |-> "guides"]

PathTails ==
  { << "notes.md" >>, << "api-plans.md" >>, << "plans", "api", "notes.md" >> }

DetectPaths == { docsPath \o Fillers(d) \o tail : d \in 0..MaxDepth, tail \in PathTails }

\* The chunks a document is made of: words, hyphenated or not.
DocChunks ==
  { << "specification" >>, << "design", "-", "doc" >>, << "system" >>,
    << "hello" >>, << "API" >> }

\* chunks.join(' ')
RECURSIVE JoinSpace(_)
JoinSpace(chunks) ==
  IF chunks = <<>> THEN <<>>
  ELSE IF Len(chunks) = 1 THEN chunks[1]
  ELSE chunks[1] \o << " " >> \o JoinSpace(Tail(chunks))

Texts == { JoinSpace(cs) : cs \in UNION { [1..n -> DocChunks] : n \in 0..MaxChunks } }

DetectContents == { Absent } \cup { Passed(text) : text \in Texts }

InitDetect ==
  /\ NoLinkRun
  /\ args \in [filePath : DetectPaths, content : DetectContents, docsRoot : { docsPath }]
  /\ returns = <<>>

\* A call of detectDomainFromPath(filePath, docsRoot).
CallDetectDomainFromPath ==
  /\ "detectDomainFromPath" \notin DOMAIN returns
  /\ returns' = returns @@
       ("detectDomainFromPath" :> detectDomainFromPath(args.filePath, args.docsRoot))
  /\ UNCHANGED << linkVars, args, dfs >>

\* A call of detectDomain(filePath, content, docsRoot).
CallDetectDomain ==
  /\ "detectDomain" \notin DOMAIN returns
  /\ returns' = returns @@
       ("detectDomain" :> detectDomain(args.filePath, args.content, args.docsRoot))
  /\ UNCHANGED << linkVars, args, dfs >>

NextDetect ==
  \/ CallDetectDomainFromPath
  \/ CallDetectDomain

SpecDetect == InitDetect /\ [][NextDetect]_vars

\* ------------------------------------------------- the keyword score run
\* word word ... word, n times
RECURSIVE Repeat(_, _)
Repeat(word, n) ==
  IF n = 0 THEN <<>>
  ELSE IF n = 1 THEN << word >>
  ELSE << word, " " >> \o Repeat(word, n - 1)

\* Documents that name a keyword of one domain t times and a keyword of
\* another s times.
ScoredTexts ==
  { JoinSpace(SelectSeq(<< Repeat("api", t), Repeat("sop", s) >>, LAMBDA x : x # <<>>)) :
      t \in 0..MaxRepeats, s \in 0..MaxSecond }

InitScores ==
  /\ NoLinkRun
  /\ args \in [filePath : { docsPath \o Fillers(d) \o tail : d \in 0..1, tail \in PathTails },
                content : { Absent } \cup { Passed(text) : text \in ScoredTexts },
                docsRoot : { docsPath }]
  /\ returns = <<>>

\* A call of detectDomainFromContent(content).
CallDetectDomainFromContent ==
  /\ args.content.passed
  /\ "detectDomainFromContent" \notin DOMAIN returns
  /\ returns' = returns @@
       ("detectDomainFromContent" :> detectDomainFromContent(args.content.value))
  /\ UNCHANGED << linkVars, args, dfs >>

NextScores ==
  \/ CallDetectDomainFromContent
  \/ CallDetectDomain

SpecScores == InitScores /\ [][NextScores]_vars

\* ------------------------------------- core/maintain/orchestrator.ts
\* A JavaScript number: NaN, or the exact quotient num / den, den > 0.
NaN == [nan |-> TRUE, num |-> 0, den |-> 1]
Number(n, d) == [nan |-> FALSE, num |-> n, den |-> d]

\* a / b for counts a <= b: 0 / 0 is NaN.
Divide(a, b) == IF b = 0 THEN NaN ELSE Number(a, b)

\* x * (n / d), x + y and x - y: NaN when an operand is NaN.
Times(x, n, d) == IF x.nan THEN NaN ELSE Number(x.num * n, x.den * d)
Plus(x, y) ==
  IF x.nan \/ y.nan THEN NaN ELSE Number(x.num * y.den + y.num * x.den, x.den * y.den)
Minus(x, y) == Plus(x, Times(y, -1, 1))

\* Math.max(0, Math.min(100, x)): NaN when x is NaN.
Clamp(x) ==
  IF x.nan THEN NaN
  ELSE IF x.num < 0 THEN Number(0, 1)
  ELSE IF x.num > 100 * x.den THEN Number(100, 1)
  ELSE x

\* A step that threw: its field of the result stays undefined.
Threw == [status |-> "threw"]

\* calculateHealthScore; a step whose field is undefined is left out.
calculateHealthScore(res) ==
  LET missingCount == Len(res.domainHealth.missingDomains)
                      + Len(res.domainHealth.missingIndexes)
                      + Len(res.domainHealth.missingRegistries)
      score0 == Number(IF ~ res.domainHealth.healthy THEN 100 - missingCount * 2 ELSE 100, 1)
      score1 ==
        IF res.metadataSync.status = "returned" THEN
          LET sync == res.metadataSync.value
              complianceRate == Divide(sync.validFiles, sync.totalFiles)
          IN  Plus(Times(score0, 7, 10), Times(complianceRate, 30, 1))
        ELSE score0
      score2 ==
        IF res.linkCheck.status = "returned" THEN
          LET check == res.linkCheck.value
              brokenRate == Divide(Len(check.brokenLinks),
                                   IF check.totalLinks > 1 THEN check.totalLinks ELSE 1)
          IN  Minus(score1, Times(brokenRate, 20, 1))
        ELSE score1
      score3 ==
        IF res.audit.status = "returned"
        THEN Plus(Times(score2, 7, 10), Times(Number(res.audit.value.healthScore, 1), 3, 10))
        ELSE score2
  IN  Clamp(score3)

\* ------------------------------------------------- the maintenance run
\* The domains of DOMAINS that are not among the missing ones.
Present(missing) == SelectSeq(DOMAINS, LAMBDA d : d \notin Range(missing))

\* The results checkDomainHealth can return: no domain folder missing, one,
\* or all; of the folders that are there, none or all without an index, none
\* or all without a registry.
DomainHealths ==
  { [healthy |-> (Len(md) + Len(mi) + Len(mr) = 0),
     presentDomains |-> Present(md), missingDomains |-> md,
     missingIndexes |-> mi, missingRegistries |-> mr] :
      md \in { <<>>, << DOMAINS[1] >>, DOMAINS },
      mi \in { <<>>, DOMAINS, Tail(DOMAINS) }, mr \in { <<>>, DOMAINS, Tail(DOMAINS) } }

\* The fields of the results of syncMetadata, checkLinks and
\* auditDocumentation that the health score reads.
SyncResults ==
  { [totalFiles |-> n, validFiles |-> v] : n \in 0..MaxSynced, v \in 0..MaxSynced }

LinkCheckResults ==
  { [totalLinks |-> n, brokenLinks |-> Repeat("broken", b)] :
      n \in 0..MaxChecked, b \in 0..MaxChecked }

AuditResults == { [healthScore |-> s] : s \in { 0, 45, 100 } }

InitMaintain ==
  /\ NoLinkRun
  /\ args \in [quick : BOOLEAN]
  /\ returns = <<>>

\* Step 0: result.domainHealth = await checkDomainHealth(docsPath)
CallCheckDomainHealth ==
  /\ "quick" \in DOMAIN args
  /\ "checkDomainHealth" \notin DOMAIN returns
  /\ \E h \in DomainHealths :
       /\ h.missingIndexes \in { <<>>, h.presentDomains }
       /\ h.missingRegistries \in { <<>>, h.presentDomains }
       /\ returns' = returns @@ ("checkDomainHealth" :> h)
  /\ UNCHANGED << linkVars, args, dfs >>

\* Step 1: syncMetadata returns or throws.
CallSyncMetadata ==
  /\ "checkDomainHealth" \in DOMAIN returns
  /\ "syncMetadata" \notin DOMAIN returns
  /\ \E r \in { Threw } \cup { Returned(s) : s \in { s \in SyncResults : s.validFiles <= s.totalFiles } } :
       returns' = returns @@ ("syncMetadata" :> r)
  /\ UNCHANGED << linkVars, args, dfs >>

\* Step 2: checkLinks returns or throws.
CallCheckLinks ==
  /\ ~ args.quick
  /\ "syncMetadata" \in DOMAIN returns
  /\ "checkLinks" \notin DOMAIN returns
  /\ \E r \in { Threw } \cup { Returned(c) : c \in { c \in LinkCheckResults : Len(c.brokenLinks) <= c.totalLinks } } :
       returns' = returns @@ ("checkLinks" :> r)
  /\ UNCHANGED << linkVars, args, dfs >>

\* Step 2 in quick mode: the link check is skipped.
SkipCheckLinks ==
  /\ args.quick
  /\ "syncMetadata" \in DOMAIN returns
  /\ "checkLinks" \notin DOMAIN returns
  /\ returns' = returns @@ ("checkLinks" :> NotRun)
  /\ UNCHANGED << linkVars, args, dfs >>

\* Step 3: auditDocumentation returns or throws.
CallAuditDocumentation ==
  /\ "checkLinks" \in DOMAIN returns
  /\ "auditDocumentation" \notin DOMAIN returns
  /\ \E r \in { Threw } \cup { Returned(a) : a \in AuditResults } :
       returns' = returns @@ ("auditDocumentation" :> r)
  /\ UNCHANGED << linkVars, args, dfs >>

\* result.healthScore = calculateHealthScore(result); return result
ReturnMaintenance ==
  /\ "auditDocumentation" \in DOMAIN returns
  /\ "runMaintenance" \notin DOMAIN returns
  /\ LET res == [success |-> returns["syncMetadata"].status = "returned",
                    domainHealth |-> returns["checkDomainHealth"],
                    metadataSync |-> returns["syncMetadata"],
                    linkCheck |-> returns["checkLinks"],
                    audit |-> returns["auditDocumentation"]]
     IN  returns' = returns @@
           ("runMaintenance" :> (res @@ [healthScore |-> calculateHealthScore(res)]))
  /\ UNCHANGED << linkVars, args, dfs >>

NextMaintain ==
  \/ CallCheckDomainHealth
  \/ CallSyncMetadata
  \/ CallCheckLinks
  \/ SkipCheckLinks
  \/ CallAuditDocumentation
  \/ ReturnMaintenance

SpecMaintain == InitMaintain /\ [][NextMaintain]_vars

\* ------------------------------------------------------------ properties
\* The internal links of a file, in document order.
InternalLinks(file) == SelectSeq(extractLinks(corpus[file]), LAMBDA l : l.isInternal)

\* Number of elements of the sequence s that satisfy Test.
CountIf(s, Test(_)) == Len(SelectSeq(s, Test))

\* buildLinkGraph as a whole, for the enumeration fs of a corpus whose
\* files are all readable: both passes, one after the other.
RECURSIVE NodePass(_, _)
NodePass(ns, fs) ==
  IF fs = <<>> THEN ns
  ELSE NodePass(NodesSet(ns, relative(docsPath, Head(fs)), NewNode(Head(fs))), Tail(fs))

RECURSIVE EdgePass(_, _)
EdgePass(g, fs) ==
  IF fs = <<>> THEN g
  ELSE EdgePass(AddLinks(g, extractLinks(corpus[Head(fs)]),
                         relative(docsPath, Head(fs)), dirname(Head(fs))), Tail(fs))

BuildLinkGraph(fs) == EdgePass([nodes |-> NodePass(<<>>, fs), edges |-> <<>>], fs)

\* Two graphs with the same nodes (domain and degrees included) and the
\* same multiset of edges.
SameEdges(es, fs) ==
  \A e \in Range(es) \cup Range(fs) :
    CountIf(es, LAMBDA x : x = e) = CountIf(fs, LAMBDA x : x = e)

SameGraph(g, h) ==
  /\ Range(g.nodes) = Range(h.nodes)
  /\ Len(g.nodes) = Len(h.nodes)
  /\ SameEdges(g.edges, h.edges)

\* The edge that a link of file must have contributed when it points to target.
HasEdgeFor(file, link, target) ==
  \E k \in 1..Len(edges) :
    edges[k] = [source |-> relative(docsPath, file), target |-> relative(docsPath, target),
                linkText |-> link.text, lineNumber |-> link.lineNumber]

\* The broken-link entry of a link of file, as checkLinks writes it.
BrokenEntry(file, link) ==
  [sourceFile |-> relative(docsPath, file), targetPath |-> link.url,
   lineNumber |-> link.lineNumber, linkText |-> link.text,
   reason |-> "Target file does not exist"]

\* C1 (as claimed): every internal link whose resolved target is a file of
\* the corpus has an edge in the graph buildLinkGraph returns, and checkLinks
\* does not report it as broken.
C1_ResolvedLinksHaveEdges ==
  \A f \in MarkdownFiles :
    \A k \in 1..Len(InternalLinks(f)) :
      LET link == InternalLinks(f)[k]
          target == resolveLink(link.url, dirname(f), docsPath)
      IN  target \in MarkdownFiles =>
            /\ graphStatus = "returned" => HasEdgeFor(f, link, target)
            /\ pc = "checked" => BrokenEntry(f, link) \notin Range(result.brokenLinks)

\* C2: whatever the enumeration order of the files, buildLinkGraph returns
\* the same nodes, with the same domain and degrees, and the same multiset
\* of edges.
C2_OrderIndependent ==
  (pc = "orphans" /\ graphStatus = "returned") =>
    \A order \in Enumerations(MarkdownFiles) : SameGraph(Graph, BuildLinkGraph(order))

\* C2 witness: a returned graph with a forward reference (an edge whose
\* target is enumerated after its source) and a backward one.
C2_Witness ==
  /\ pc = "orphans" /\ graphStatus = "returned"
  /\ \E a, b \in 1..Len(edges) :
       /\ NodeIndex(nodes, edges[a].source) < NodeIndex(nodes, edges[a].target)
       /\ NodeIndex(nodes, edges[b].source) > NodeIndex(nodes, edges[b].target)

\* C3 (as claimed): a read failure is confined to its file; buildLinkGraph
\* returns a graph with a node for every enumerated file and the edges of
\* the readable files.
C3_ReadFailureConfined ==
  pc \notin {"nodes", "edges"} =>
    /\ graphStatus = "returned"
    /\ \A f \in MarkdownFiles : NodesHas(nodes, relative(docsPath, f))
    /\ SameEdges(edges, EdgePass([nodes |-> NodePass(<<>>, files), edges |-> <<>>],
                                 SelectSeq(files, LAMBDA f : f \notin unreadable)).edges)

\* checkLinks as a whole over the files fs, all of them readable: the loop
\* and the statements after it.
RECURSIVE CheckPass(_, _)
CheckPass(c, fs) ==
  IF fs = <<>> THEN c
  ELSE CheckPass(CheckLinksOf(c, extractLinks(corpus[Head(fs)]), Head(fs)), Tail(fs))

CheckedAlone(fs) ==
  LET c == CheckPass([result |-> EmptyResult, conns |-> <<>>], fs)
  IN  FinishResult(c.result, c.conns)

\* The files checkLinks visits and the ones among them it could read.
FailedFiles == {f \in Range(checkFiles) : f \in unreadable}

ReadFiles == SelectSeq(checkFiles, LAMBDA f : f \notin unreadable)

\* C4: when the read of a file fails, checkLinks still processes every
\* other file: apart from totalFiles, its result is the one of a run over
\* the files that were read, so nothing of the failed file is counted.
C4_FailureIsolated ==
  pc = "checked" =>
    /\ result.totalFiles = Len(checkFiles)
    /\ [result EXCEPT !.totalFiles = 0] = CheckedAlone(ReadFiles)

\* C4 witness: a finished run in which a file with links failed and a file
\* visited after it was read and counted.
C4_Witness ==
  /\ pc = "checked"
  /\ \E a, b \in 1..Len(checkFiles) :
       /\ a < b
       /\ checkFiles[a] \in unreadable
       /\ extractLinks(corpus[checkFiles[a]]) # <<>>
       /\ checkFiles[b] \notin unreadable
       /\ result.totalLinks = Len(extractLinks(corpus[checkFiles[b]]))
       /\ result.totalLinks > 0

\* The files that the entries of a LinkCheckResult name.
FilesNamedIn(r) ==
  {r.brokenLinks[k].sourceFile : k \in 1..Len(r.brokenLinks)}
    \cup {r.crossDomainLinks[k].sourceFile : k \in 1..Len(r.crossDomainLinks)}
    \cup {r.externalLinks[k].sourceFile : k \in 1..Len(r.externalLinks)}

\* C5 (as claimed): every file whose read failed is recorded in the
\* LinkCheckResult, which has no error list or error count: the only places
\* that can name a file are the entries of its three link lists.
C5_FailedFileRecorded ==
  pc = "checked" =>
    \A f \in FailedFiles : relative(docsPath, f) \in FilesNamedIn(result)

\* The entries of brokenLinks that match a link of file.
BrokenCount(file, link) ==
  CountIf(result.brokenLinks, LAMBDA b : b = BrokenEntry(file, link))

\* The files and directories of the disk.
OnDisk(path) == path \in MarkdownFiles \cup OtherFiles \cup Directories

\* The target of a link: anchor stripped, a leading "/" against the root,
\* anything else against the directory of the linking file.
TargetOf(file, link) ==
  LET pathPart == BeforeHash(link.url)
  IN  IF StartsWithSlash(pathPart) THEN NormalizeAbs(docsPath, Segments(pathPart))
      ELSE NormalizeAbs(dirname(file), Segments(pathPart))

\* C6 (as claimed): checkLinks reports an internal link as broken if and
\* only if its resolved target is not one of the enumerated markdown files.
C6_BrokenIffNotNode ==
  pc = "checked" =>
    \A k \in 1..Len(ReadFiles) :
      \A m \in 1..Len(InternalLinks(ReadFiles[k])) :
        LET f == ReadFiles[k]
            link == InternalLinks(f)[m]
        IN  BrokenCount(f, link) > 0 <=> TargetOf(f, link) \notin MarkdownFiles

\* C6 (amended): checkLinks reports an internal link of a file it read as
\* broken if and only if its resolved target does not exist on the disk,
\* whether or not the target is an enumerated markdown file.
C6_BrokenIffNotOnDisk ==
  pc = "checked" =>
    \A k \in 1..Len(ReadFiles) :
      \A m \in 1..Len(InternalLinks(ReadFiles[k])) :
        LET f == ReadFiles[k]
            link == InternalLinks(f)[m]
        IN  BrokenCount(f, link) > 0 <=> ~ OnDisk(TargetOf(f, link))

\* C6 witness: a finished run with a broken link and a valid link to a file
\* of the disk that is not a node.
C6_Witness ==
  /\ pc = "checked"
  /\ Len(result.brokenLinks) > 0
  /\ \E k \in 1..Len(ReadFiles) :
       \E m \in 1..Len(InternalLinks(ReadFiles[k])) :
         /\ TargetOf(ReadFiles[k], InternalLinks(ReadFiles[k])[m]) \in OtherFiles
         /\ BrokenCount(ReadFiles[k], InternalLinks(ReadFiles[k])[m]) = 0
  /\ result.validLinks = 1

\* The internal links of file whose target is absent from the disk.
AbsentLinks(file) == SelectSeq(InternalLinks(file), LAMBDA l : ~ OnDisk(TargetOf(file, l)))

BrokenLinksOf(file) ==
  SelectSeq(result.brokenLinks, LAMBDA b : b.sourceFile = relative(docsPath, file))

EdgesFrom(file) == SelectSeq(edges, LAMBDA e : e.source = relative(docsPath, file))

\* C7: each occurrence of an internal link whose target is absent yields
\* exactly one BrokenLink entry, which carries the source file, the link
\* text, the line number and the target as written (anchor included), and
\* the occurrence contributes no edge: the edges of a file are at most its
\* internal links with a present target, and each edge ends at a node.
C7_OneEntryPerAbsentLink ==
  /\ pc = "checked" =>
       \A k \in 1..Len(ReadFiles) :
         LET f == ReadFiles[k]
         IN  BrokenLinksOf(f) = [m \in 1..Len(AbsentLinks(f)) |-> BrokenEntry(f, AbsentLinks(f)[m])]
  /\ graphStatus = "returned" =>
       \A f \in MarkdownFiles :
         /\ Len(EdgesFrom(f)) + Len(AbsentLinks(f)) <= Len(InternalLinks(f))
         /\ \A k \in 1..Len(EdgesFrom(f)) :
              \E m \in 1..Len(InternalLinks(f)) :
                LET l == InternalLinks(f)[m]
                IN  /\ l.text = EdgesFrom(f)[k].linkText
                    /\ l.lineNumber = EdgesFrom(f)[k].lineNumber
                    /\ OnDisk(TargetOf(f, l))
                    /\ relative(docsPath, TargetOf(f, l)) = EdgesFrom(f)[k].target

\* C7 witness: a finished run over a readable corpus in which a file has an
\* absent target written with an anchor, and an edge.
C7_Witness ==
  /\ pc = "checked" /\ graphStatus = "returned"
  /\ \E f \in MarkdownFiles :
       /\ Len(EdgesFrom(f)) = 1
       /\ Len(BrokenLinksOf(f)) = 1
       /\ "#" \in Range(BrokenLinksOf(f)[1].targetPath)

\* The domain detected for the document at the end of an edge.
DomainOfPath(relPath) ==
  detectDomainFromPath(CHOOSE f \in MarkdownFiles : relative(docsPath, f) = relPath,
                       docsPath).domain

\* An edge whose two ends have a domain, and not the same one.
IsCrossDomain(e) ==
  /\ DomainOfPath(e.source) # Null
  /\ DomainOfPath(e.target) # Null
  /\ DomainOfPath(e.source) # DomainOfPath(e.target)

\* C8 (as claimed): the connection matrix aggregates exactly the
\* cross-domain edges: cell [r][c] is the number of cross-domain edges from
\* domain r to domain c, the diagonal is 0 and totalConnections is the
\* number of cross-domain edges, the one getLinkStatistics counts.
C8_MatrixOfCrossDomainEdges ==
  (pc = "links" /\ graphStatus = "returned") =>
    /\ \A r, c \in 1..Len(DOMAINS) :
         matrix.value.matrix[r][c] =
           CountIf(edges, LAMBDA e : /\ IsCrossDomain(e)
                                     /\ DomainOfPath(e.source) = DOMAINS[r]
                                     /\ DomainOfPath(e.target) = DOMAINS[c])
    /\ \A r \in 1..Len(DOMAINS) : matrix.value.matrix[r][r] = 0
    /\ matrix.value.totalConnections = CountIf(edges, IsCrossDomain)
    /\ statistics.value.crossDomainPercentage[1] = 100 * CountIf(edges, IsCrossDomain)

\* C9: findOrphanFiles returns exactly the nodes without inbound edge whose
\* file name is not INDEX.md, REGISTRY.md or README.md, each of them once.
C9_OrphansExact ==
  (pc = "matrix" /\ graphStatus = "returned") =>
    /\ Range(orphans.value) =
         { nodes[k].path : k \in
             { m \in 1..Len(nodes) :
                 /\ CountIf(edges, LAMBDA e : e.target = nodes[m].id) = 0
                 /\ Last(Segments(nodes[m].path)) \notin {"INDEX.md", "REGISTRY.md", "README.md"} } }
    /\ Cardinality(Range(orphans.value)) = Len(orphans.value)

\* C9 witness: an orphan is reported, a structural file without inbound
\* edge is left out, and so is a file that another file links to.
C9_Witness ==
  /\ pc = "matrix" /\ graphStatus = "returned"
  /\ orphans.value # <<>>
  /\ \E k \in 1..Len(nodes) :
       /\ nodes[k].path = << "INDEX.md" >>
       /\ CountIf(edges, LAMBDA e : e.target = nodes[k].id) = 0
  /\ \E k \in 1..Len(nodes) :
       /\ nodes[k].path \notin Range(orphans.value)
       /\ Last(Segments(nodes[k].path)) \notin StructuralNames
       /\ \E m \in 1..Len(edges) : edges[m].target = nodes[k].id /\ edges[m].source # nodes[k].id

\* The pairs (source, target) of the edges of the graph.
EdgePairs == {<< edges[k].source, edges[k].target >> : k \in 1..Len(edges)}

\* The graph is one mutual reference between two documents and nothing else.
MutualOnly(a, b) == a # b /\ EdgePairs = {<< a, b >>, << b, a >>}

\* The links of the file that contributed the edge e.
LinksOfEdge(f, e) ==
  SelectSeq(InternalLinks(f),
            LAMBDA l : /\ l.text = e.linkText /\ l.lineNumber = e.lineNumber
                       /\ BeforeHash(l.url) # <<>>
                       /\ GraphTarget(l.url, dirname(f)) = e.target)

TierLines ==
  { << "#", " ", "Overview" >>, << "#", " ", "API" >>, << "standard", " ", "example" >>,
    << "-", " ", "item" >>, << Fence >>, << "|", " ", "item", " ", "|" >>,
    << ">", " ", "**", "Warning", "**" >>, << Pad >> }

\* How often a line is repeated in a run.
RepeatCounts == { 1, 12 }

TierContents ==
  UNION { [1..n -> [line : TierLines, times : RepeatCounts]] : n \in 0..MaxRuns }

InitTier ==
  /\ NoLinkRun
  /\ args \in [content : TierContents]
  /\ returns = <<>>

\* A call of classifyTier(content).
CallClassifyTier ==
  /\ "classifyTier" \notin DOMAIN returns
  /\ returns' = returns @@ ("classifyTier" :> classifyTier(args.content))
  /\ UNCHANGED << linkVars, args, dfs >>

NextTier == CallClassifyTier

SpecTier == InitTier /\ [][NextTier]_vars

\* --------------------------------------------------- the link extractor run
\* The markdown of a piece of a document: an inline link, a line break, or
\* raw text.
Markdown(piece) ==
  IF piece.kind = "link" THEN << "[", piece.text, "]", "(" >> \o piece.url \o << ")" >>
  ELSE IF piece.kind = "nl" THEN << "\n" >>
  ELSE piece.tokens

Raw(tokens) == [kind |-> "raw", tokens |-> tokens]

\* What the extracted documents are made of: whole links (relative, with an
\* anchor, external, mail, in-page, titled), a line break, and the halves of
\* a link cut inside its text, and a link broken over two lines after its text.
Pieces ==
  { LinkToken("API", UrlRel), LinkToken("Site", UrlExt), NewLine,
    LinkToken("t", << "http://", "example.com" >>),
    LinkToken("t", << "mailto:", "x" >>),
    LinkToken("t", << "#", "top" >>),
    Raw(<< "[", "t", "]", "(", "u.md", " ", "\"", "x", "\"", ")" >>),
    Raw(<< "[", "t" >>), Raw(<< "]", "(", "u.md", ")" >>),
    Raw(<< "[", "t", "]", "\n", "(", "u.md", ")" >>),
    Raw(<< " " >>) }

RECURSIVE Flatten(_)
Flatten(pieces) ==
  IF pieces = <<>> THEN <<>> ELSE Markdown(Head(pieces)) \o Flatten(Tail(pieces))

Documents == UNION { [1..n -> Pieces] : n \in 0..MaxPieces }

InitLinks ==
  /\ NoLinkRun
  /\ \E pieces \in Documents : args = [pieces |-> pieces, content |-> Flatten(pieces)]
  /\ returns = <<>>

\* A call of extractLinks(content).
CallExtractLinks ==
  /\ "extractLinks" \notin DOMAIN returns
  /\ returns' = returns @@ ("extractLinks" :> extractLinksIn(args.content))
  /\ UNCHANGED << linkVars, args, dfs >>

\* A call of extractInternalLinks(content).
CallExtractInternalLinks ==
  /\ "extractInternalLinks" \notin DOMAIN returns
  /\ returns' = returns @@ ("extractInternalLinks" :> extractInternalLinksIn(args.content))
  /\ UNCHANGED << linkVars, args, dfs >>

NextLinks == CallExtractLinks \/ CallExtractInternalLinks

SpecLinks == InitLinks /\ [][NextLinks]_vars

\* ------------------------------------------------ the metadata generator run
\* What an author may declare for each field of the front matter: a value,
\* and for a text or a list also the empty one.
DeclaredValues ==
  [ title |-> { <<>>, << "Existing", " ", "Title" >> },
    tier |-> { "reference" },
    domains |-> { <<>>, << "security" >> },
    audience |-> { <<>>, << "devops" >> },
    tags |-> { <<>>, << "x" >> },
    status |-> { "active" },
    last_updated |-> { "2024-01-15" },
    version |-> { "2.0.0" },
    purpose |-> { <<>>, << "p" >> },
    related_docs |-> { << "./other-doc.md" >> },
    load_priority |-> { 5 },
    author |-> { "John Doe" },
    maintainer |-> { "Team Name" },
    review_frequency |-> { "monthly" },
    implementation_status |-> { "planned" },
    tested |-> { TRUE, FALSE },
    production_ready |-> { TRUE, FALSE },
    estimated_read_time |-> { << 9, "minutes" >> },
    word_count |-> { 1234 },
    last_validated |-> { "2024-01-15" },
    backlinks |-> { <<>>, << "a.md" >> } ]

\* The front matters that declare exactly the fields of S.
RECURSIVE Declaring(_)
Declaring(S) ==
  IF S = {} THEN { <<>> }
  ELSE LET field == CHOOSE field \in S : TRUE
       IN  { (field :> value) @@ m : value \in DeclaredValues[field], m \in Declaring(S \ {field}) }

FrontMatters ==
  UNION { Declaring(S) : S \in { S \in SUBSET MetadataFields : Cardinality(S) <= MaxDeclared } }

\* The documents and where they lie: a heading alone and nothing, outside
\* every domain directory; nothing, in a domain directory; a heading and a
\* paragraph.
MetadataInputs ==
  { [filePath |-> docsPath \o << "notes.md" >>, content |-> << "#", " ", "API" >>],
    [filePath |-> docsPath \o << "notes.md" >>, content |-> <<>>],
    [filePath |-> docsPath \o << "security", "notes.md" >>, content |-> <<>>],
    [filePath |-> docsPath \o << "api-plans.md" >>,
     content |-> << "#", " ", "Overview", "\n", "\n",
                    "standard", " ", "example", " ", "item" >>] }

InitMetadata ==
  /\ NoLinkRun
  /\ \E input \in MetadataInputs, existing \in FrontMatters :
       args = [filePath |-> input.filePath, content |-> input.content, docsRoot |-> docsPath,
               existingMetadata |-> existing]
  /\ returns = <<>>

\* A call of generateMetadata({filePath, content, docsRoot, existingMetadata}).
CallGenerateMetadata ==
  /\ "generateMetadata" \notin DOMAIN returns
  /\ returns' = returns @@ ("generateMetadata" :> generateMetadata(args))
  /\ UNCHANGED << linkVars, args, dfs >>

\* A call of mergeMetadata(existing, generated) on what generateMetadata returned.
CallMergeMetadata ==
  /\ "generateMetadata" \in DOMAIN returns
  /\ "mergeMetadata" \notin DOMAIN returns
  /\ returns' = returns @@ ("mergeMetadata" :>
                   mergeMetadata(args.existingMetadata, returns["generateMetadata"]))
  /\ UNCHANGED << linkVars, args, dfs >>

NextMetadata == CallGenerateMetadata \/ CallMergeMetadata

SpecMetadata == InitMetadata /\ [][NextMetadata]_vars

\* ------------------------------------------------ the cycle detection run
\* The files of the graphs handed to the cycle detection.
GraphNodes == Range(SortedPaths)

\* A Set of files in insertion order: no file twice.
ImportLists ==
  { s \in UNION { [1..n -> GraphNodes] : n \in 0..Cardinality(GraphNodes) } :
      \A j, k \in 1..Len(s) : j # k => s[j] # s[k] }

RECURSIVE EdgeCount(_)
EdgeCount(graph) ==
  IF graph = <<>> THEN 0 ELSE Len(Head(graph).imports) + EdgeCount(Tail(graph))

\* Every Map from files to Sets of files, in every insertion order, of at
\* most MaxEdges references in all; a file referred to need not be a key.
DependencyGraphs ==
  { graph \in UNION { [1..n -> [key : GraphNodes, imports : ImportLists]] :
                       n \in 0..Cardinality(GraphNodes) } :
      /\ \A j, k \in 1..Len(graph) : j # k => graph[j].key # graph[k].key
      /\ EdgeCount(graph) <= MaxEdges }

InitCycles ==
  /\ Parked
  /\ \E graph \in DependencyGraphs :
       /\ args = [graph |-> graph]
       /\ dfs = [phase |-> "running", todo |-> GraphKeys(graph), frames |-> <<>>,
                 visited |-> {}, recursionStack |-> {}, cycles |-> <<>>,
                 expanded |-> <<>>]
  /\ returns = <<>>

\* dfs that goes by the recursion stack alone.
Visit_Unmarked(graph, d, node, path) ==
  IF node \in d.recursionStack THEN
    [d EXCEPT !.cycles = Append(@, [files |-> SubSeq(path, IndexOf(path, node), Len(path))])]
  ELSE [d EXCEPT !.recursionStack = @ \cup {node},
                 !.frames = Append(@, [node |-> node, path |-> Append(path, node),
                                       imports |-> GraphGet(graph, node)]),
                 !.expanded = Append(@, node)]

\* dfs that reports the whole path when a node is met again.
Visit_WholePath(graph, d, node, path) ==
  IF node \in d.recursionStack THEN [d EXCEPT !.cycles = Append(@, [files |-> path])]
  ELSE IF node \in d.visited THEN d
  ELSE [d EXCEPT !.visited = @ \cup {node},
                 !.recursionStack = @ \cup {node},
                 !.frames = Append(@, [node |-> node, path |-> Append(path, node),
                                       imports |-> GraphGet(graph, node)]),
                 !.expanded = Append(@, node)]

\* dfs that looks at the visited set before the recursion stack.
Visit_VisitedFirst(graph, d, node, path) ==
  IF node \in d.visited THEN d
  ELSE [d EXCEPT !.visited = @ \cup {node},
                 !.recursionStack = @ \cup {node},
                 !.frames = Append(@, [node |-> node, path |-> Append(path, node),
                                       imports |-> GraphGet(graph, node)]),
                 !.expanded = Append(@, node)]

\* The call dfs(node, path) up to its loop: a node on the recursion stack
\* closes a cycle, a visited node returns, any other node is marked, pushed
\* on the path and gets a frame for the loop over its imports.
Visit(graph, d, node, path) ==
  IF node \in d.recursionStack THEN
    LET cycleStart == IndexOf(path, node)
    IN  IF cycleStart # 0
        THEN [d EXCEPT !.cycles = Append(@, [files |-> SubSeq(path, cycleStart, Len(path))])]
        ELSE d
  ELSE IF node \in d.visited THEN d
  ELSE [d EXCEPT !.visited = @ \cup {node},
                 !.recursionStack = @ \cup {node},
                 !.frames = Append(@, [node |-> node, path |-> Append(path, node),
                                       imports |-> GraphGet(graph, node)]),
                 !.expanded = Append(@, node)]

\* for (const node of graph.keys()) if (!visited.has(node)) dfs(node, [])
StartDfs ==
  /\ dfs.phase = "running" /\ dfs.frames = <<>> /\ dfs.todo # <<>>
  /\ LET node == Head(dfs.todo)
         d == [dfs EXCEPT !.todo = Tail(@)]
     IN  dfs' = IF node \in dfs.visited THEN d ELSE Visit(args.graph, d, node, <<>>)
  /\ UNCHANGED << linkVars, args, returns >>

\* for (const imported of imports) dfs(imported, [...path])
VisitImport ==
  /\ dfs.phase = "running" /\ dfs.frames # <<>>
  /\ Last(dfs.frames).imports # <<>>
  /\ LET top == Last(dfs.frames)
         d == [dfs EXCEPT !.frames[Len(dfs.frames)].imports = Tail(@)]
     IN  dfs' = Visit(args.graph, d, Head(top.imports), top.path)
  /\ UNCHANGED << linkVars, args, returns >>

\* recursionStack.delete(node); return false
ReturnDfs ==
  /\ dfs.phase = "running" /\ dfs.frames # <<>>
  /\ Last(dfs.frames).imports = <<>>
  /\ dfs' = [dfs EXCEPT !.recursionStack = @ \ {Last(dfs.frames).node},
                        !.frames = Front(@)]
  /\ UNCHANGED << linkVars, args, returns >>

\* The deduplication and return uniqueCycles.slice(0, 10)
FinishDetection ==
  /\ dfs.phase = "running" /\ dfs.frames = <<>> /\ dfs.todo = <<>>
  /\ dfs' = [dfs EXCEPT !.phase = "done"]
  /\ LET uniqueCycles == Deduplicate(dfs.cycles, {}, <<>>)
     IN  returns' = returns @@ ("detectCircularDependencies" :>
                      SubSeq(uniqueCycles, 1, Min2(Len(uniqueCycles), 10)))
  /\ UNCHANGED << linkVars, args >>

NextCycles == StartDfs \/ VisitImport \/ ReturnDfs \/ FinishDetection

SpecCycles == InitCycles /\ [][NextCycles]_vars

\* The event loop runs the synchronous traversal to its end.
SpecCyclesFair == SpecCycles /\ WF_vars(NextCycles)

\* ------------------------------------------------- domain detector claims
\* The path of the call relative to the documentation root, as segments.
RelativeParts == Segments(relative(args.docsRoot, args.filePath))

Detected == "detectDomain" \in DOMAIN returns

\* C11: when the first segment of the path below the documentation root is
\* a registered domain id, detectDomain returns that domain with confidence
\* 1.0, whatever the content is (absent, empty, or full of the keywords of
\* another domain).
C11_FirstSegmentWins ==
  (Detected /\ isValidDomain(RelativeParts[1])) =>
    /\ returns["detectDomain"].domain = RelativeParts[1]
    /\ returns["detectDomain"].confidence = 1000

\* A file below docs/plans whose content speaks of another domain only.
C11_Witness ==
  /\ Detected
  /\ RelativeParts[1] = "plans"
  /\ args.content.passed
  /\ detectDomainFromContent(args.content.value).domain = "api"
  /\ returns["detectDomain"].domain = "plans"

\* No keyword of any domain stands in the text as whole words.
NoKeywordIn(text) ==
  \A k \in 1..Len(getAllKeywords) : MatchCount(toLowerCase(text), getAllKeywords[k].keyword) = 0

\* The path of the call names no domain, neither in a segment nor in the
\* file name.
PathNamesNoDomain ==
  /\ \A k \in 1..Len(RelativeParts) : ~ isValidDomain(RelativeParts[k])
  /\ \A k \in 1..Len(DOMAINS) : ~ NameIncludes(basename(args.filePath), DOMAINS[k])

\* C12: when no path segment is a domain id, the file name contains no domain
\* id and the content, if supplied, has no whole-word keyword match,
\* detectDomain returns domain null, confidence 0 and no alternates.
C12_NoMatchIsNull ==
  (Detected /\ PathNamesNoDomain /\ (args.content.passed => NoKeywordIn(args.content.value))) =>
    /\ returns["detectDomain"].domain = Null
    /\ returns["detectDomain"].confidence = 0
    /\ returns["detectDomain"].alternativeDomains = <<>>

\* A document of words that are no keywords, at a path that names no domain.
C12_Witness ==
  /\ Detected
  /\ PathNamesNoDomain
  /\ args.content.passed /\ Len(args.content.value) >= 3
  /\ NoKeywordIn(args.content.value)
  /\ returns["detectDomain"].method = "content"
  /\ returns["detectDomain"].domain = Null

\* The results of the two phases for the arguments of the call.
PathPhase == detectDomainFromPath(args.filePath, args.docsRoot)
ContentPhase == detectDomainFromContent(args.content.value)

\* The result names the domain and the confidence of the phase among its
\* alternates.
HasAlternate(res, phase) ==
  \E k \in 1..Len(res.alternativeDomains) :
    /\ res.alternativeDomains[k].domain = phase.domain
    /\ res.alternativeDomains[k].confidence.num =
         phase.confidence * res.alternativeDomains[k].confidence.den

\* Both phases find a domain, the path phase with a confidence below 0.9.
BothPhasesFind ==
  /\ args.content.passed
  /\ PathPhase.domain # Null /\ PathPhase.confidence < 900
  /\ ContentPhase.domain # Null

\* C13 (as claimed): when the path confidence is below 0.9 and content is
\* supplied, detectDomain returns the phase of higher confidence and lists the
\* domain and confidence of the losing phase among the alternates, whichever
\* phase loses.
C13_LoserAmongAlternates ==
  (Detected /\ BothPhasesFind) =>
    LET res == returns["detectDomain"]
    IN  IF ContentPhase.confidence > PathPhase.confidence
        THEN /\ res.domain = ContentPhase.domain
             /\ res.confidence = ContentPhase.confidence
             /\ HasAlternate(res, PathPhase)
        ELSE /\ res.domain = PathPhase.domain
             /\ res.confidence = PathPhase.confidence
             /\ HasAlternate(res, ContentPhase)

\* The keyword score of a domain for a text: the whole-word occurrences of
\* each of its keywords, added up.
RECURSIVE ScoreOver(_, _)
ScoreOver(ks, lowerContent) ==
  IF ks = <<>> THEN 0
  ELSE MatchCount(lowerContent, Head(ks)) + ScoreOver(Tail(ks), lowerContent)

ScoreOf(domain, text) == ScoreOver(DOMAIN_DEFINITIONS[domain].keywords, toLowerCase(text))

\* The first domain of the registry among those of the highest score.
FirstOfTopScore(text) ==
  LET top == CHOOSE s \in { ScoreOf(DOMAINS[k], text) : k \in 1..Len(DOMAINS) } :
               \A k \in 1..Len(DOMAINS) : ScoreOf(DOMAINS[k], text) <= s
      k == CHOOSE k \in 1..Len(DOMAINS) :
             /\ ScoreOf(DOMAINS[k], text) = top
             /\ \A m \in 1..(k - 1) : ScoreOf(DOMAINS[m], text) < top
  IN  DOMAINS[k]

\* The first domain of the registry among those the file name contains.
FirstInName(fileName) ==
  DOMAINS[CHOOSE k \in 1..Len(DOMAINS) :
            /\ NameIncludes(fileName, DOMAINS[k])
            /\ \A m \in 1..(k - 1) : ~ NameIncludes(fileName, DOMAINS[m])]

\* C14 (as claimed): among the domains that tie for the best score of a
\* phase, the one that comes first in the registry is chosen: among the
\* domains of equal top keyword score in the content phase, shared keywords
\* included, and among the domain ids the file name contains.
C14_TiesByRegistryOrder ==
  /\ (Detected /\ returns["detectDomain"].method = "keywords") =>
       (returns["detectDomain"].domain = FirstOfTopScore(args.content.value))
  /\ ("detectDomainFromPath" \in DOMAIN returns
        /\ (\A k \in 1..Len(RelativeParts) : ~ isValidDomain(RelativeParts[k]))
        /\ returns["detectDomainFromPath"].domain # Null) =>
       (returns["detectDomainFromPath"].domain = FirstInName(basename(args.filePath)))

\* C15 (as claimed): every result of detectDomain and of detectDomainFromPath
\* has a confidence within [0, 1], and so has each of its alternates, at
\* whatever depth of the path the first domain id stands.
C15_ConfidenceInRange ==
  \A fn \in DOMAIN returns :
    /\ 0 <= returns[fn].confidence /\ returns[fn].confidence <= 1000
    /\ \A k \in 1..Len(returns[fn].alternativeDomains) :
         LET c == returns[fn].alternativeDomains[k].confidence
         IN  0 <= c.num /\ c.num <= 1000 * c.den

\* ------------------------------------------------- tier classifier claims
Classified == "classifyTier" \in DOMAIN returns

\* The tiers of the highest score of a result.
TopTiers(res) ==
  { tier \in Range(TIERS) : \A other \in Range(TIERS) : res.scores[other] <= res.scores[tier] }

\* C16 (as claimed): classifyTier returns a tier of the highest of the five
\* scores, and guide whenever two or more tiers tie for the highest score.
C16_TieIsGuide ==
  Classified =>
    LET res == returns["classifyTier"]
    IN  /\ res.tier \in TopTiers(res)
        /\ Cardinality(TopTiers(res)) >= 2 => res.tier = "guide"

\* The highest score, and the second highest: the highest again on a tie.
TopScoreOf(res) == res.scores[CHOOSE tier \in TopTiers(res) : TRUE]

SecondScoreOf(res) ==
  IF Cardinality(TopTiers(res)) >= 2 THEN TopScoreOf(res)
  ELSE LET rest == Range(TIERS) \ TopTiers(res)
       IN  res.scores[CHOOSE tier \in rest : \A other \in rest : res.scores[other] <= res.scores[tier]]

\* C17: the confidence of classifyTier is
\* min(0.5 + 0.3 * gap / top + 0.2 * top / 100, 0.95) when the top score is
\* positive, gap being the top score less the second highest (0 on a tie),
\* and exactly 0.5 when the top score is 0; it lies within [0.5, 0.95].
C17_ConfidenceFormula ==
  Classified =>
    LET res == returns["classifyTier"]
        c == res.confidence
        top == TopScoreOf(res)
        gap == top - SecondScoreOf(res)
        \* 0.5 + 0.3 * gap / top + 0.2 * top / 100, in thousandths, times top
        raw == 500 * top + 300 * gap + 2 * top * top
    IN  /\ c.den > 0
        /\ top = 0 => c.num = 500 * c.den
        /\ (top > 0 /\ raw <= 950 * top) => c.num * top = raw * c.den
        /\ (top > 0 /\ raw > 950 * top) => c.num = 950 * c.den
        /\ 500 * c.den <= c.num /\ c.num <= 950 * c.den

\* A document with a runner-up tier: the gap is positive and smaller than the
\* top score, and the cap is not reached.
C17_Witness ==
  /\ Classified
  /\ SecondScoreOf(returns["classifyTier"]) > 0
  /\ TopScoreOf(returns["classifyTier"]) > SecondScoreOf(returns["classifyTier"])
  /\ returns["classifyTier"].confidence.num < 950 * returns["classifyTier"].confidence.den

\* ------------------------------------------------- link extractor claims
ExtractedLinks == returns["extractLinks"]

\* The indexes of the line breaks of the text, and its physical lines, read
\* off the text itself: line n lies between the (n-1)th and the nth break.
Breaks == { k \in 1..Len(args.content) : args.content[k] = "\n" }

NthBreak(n) == CHOOSE k \in Breaks : Cardinality({ m \in Breaks : m < k }) = n - 1

PhysicalLine(n) ==
  SubSeq(args.content,
         IF n = 1 THEN 1 ELSE NthBreak(n - 1) + 1,
         IF n > Cardinality(Breaks) THEN Len(args.content) ELSE NthBreak(n) - 1)

\* The characters of the line before its index p.
Offset(line, p) == CharsOf(SubSeq(line, 1, p - 1))

\* The indexes at which a link construct [text](url) or [text](url "title")
\* that starts at index p of the line closes: none if no construct starts there.
TitleEnds(line, r) ==
  { e + 1 : e \in { e \in (r + 2)..(Len(line) - 1) :
                     /\ line[e] = "\"" /\ line[e + 1] = ")"
                     /\ \E s \in (r + 1)..(e - 1) :
                          /\ line[s] = "\""
                          /\ \A m \in r..(s - 1) : line[m] = " "
                          /\ \A m \in (s + 1)..(e - 1) : line[m] # "\"" } }

TargetEnds(line, q) ==
  UNION { IF line[r] = ")" THEN {r} ELSE TitleEnds(line, r) :
          r \in { r \in (q + 3)..Len(line) :
                   /\ line[r] \in {")", " "}
                   /\ \A m \in (q + 2)..(r - 1) : line[m] \notin {")", " "} } }

LinkEnds(line, p) ==
  IF line[p] # "[" THEN {}
  ELSE UNION { TargetEnds(line, q) :
               q \in { q \in (p + 1)..(Len(line) - 1) :
                        /\ line[q] = "]" /\ line[q + 1] = "("
                        /\ \A m \in (p + 1)..(q - 1) : line[m] # "]" } }

\* The entry is a link construct of the line it names: the construct starts
\* at the entry's start offset, carries its text and target, and ends at its
\* end offset.
HeldByItsLine(link) ==
  /\ link.lineNumber \in 1..(Cardinality(Breaks) + 1)
  /\ LET line == PhysicalLine(link.lineNumber)
     IN  \E p \in 1..Len(line) :
           /\ Offset(line, p) = link.startIndex
           /\ \E z \in LinkEnds(line, p) : Offset(line, z + 1) = link.endIndex
           /\ SubSeq(line, p, p + Len(link.text) + Len(link.url) + 2)
                = << "[" >> \o link.text \o << "]", "(" >> \o link.url

\* C18: extractLinks returns the links in document order: every entry is a
\* link construct lying whole within the physical line its 1-based lineNumber
\* names (so a construct broken over two lines yields none), line numbers
\* never decrease, start offsets strictly increase within a line, and every
\* link construct of a line has its own entry unless it starts inside the
\* one matched before it.
C18_DocumentOrder ==
  "extractLinks" \in DOMAIN returns =>
    /\ \A k \in 1..Len(ExtractedLinks) : HeldByItsLine(ExtractedLinks[k])
    /\ \A k \in 1..(Len(ExtractedLinks) - 1) :
         \/ ExtractedLinks[k].lineNumber < ExtractedLinks[k + 1].lineNumber
         \/ /\ ExtractedLinks[k].lineNumber = ExtractedLinks[k + 1].lineNumber
            /\ ExtractedLinks[k].startIndex < ExtractedLinks[k + 1].startIndex
    /\ \A n \in 1..(Cardinality(Breaks) + 1) :
         LET line == PhysicalLine(n)
         IN  \A p \in 1..Len(line) :
               LinkEnds(line, p) # {} =>
                 \E k \in 1..Len(ExtractedLinks) :
                   /\ ExtractedLinks[k].lineNumber = n
                   /\ ExtractedLinks[k].startIndex <= Offset(line, p)
                   /\ Offset(line, p) < ExtractedLinks[k].endIndex

\* Two links share the first line and a third construct is broken over the
\* first and second lines: two entries, both of line 1, at offsets 0 and 20.
C18_Witness ==
  /\ "extractLinks" \in DOMAIN returns
  /\ args.pieces = << LinkToken("API", UrlRel), LinkToken("t", << "#", "top" >>),
                      Raw(<< "[", "t", "]", "\n", "(", "u.md", ")" >>) >>
  /\ Len(ExtractedLinks) = 2
  /\ ExtractedLinks[1].lineNumber = 1 /\ ExtractedLinks[1].startIndex = 0
  /\ ExtractedLinks[2].lineNumber = 1 /\ ExtractedLinks[2].startIndex = 20

\* The extraction from pieces agrees with the extraction from their text:
\* for a document of whole links and line breaks, extractLinks over the
\* pieces yields the entries the regular expression finds in the markdown.
PiecesAgreeWithText ==
  ("extractLinks" \in DOMAIN returns /\ \A k \in 1..Len(args.pieces) : args.pieces[k].kind # "raw") =>
    extractLinks(args.pieces)
      = [ k \in 1..Len(ExtractedLinks) |->
            [text |-> ExtractedLinks[k].text[1], url |-> ExtractedLinks[k].url,
             isInternal |-> ExtractedLinks[k].isInternal,
             lineNumber |-> ExtractedLinks[k].lineNumber] ]

InternalLinksReturned == returns["extractInternalLinks"]

\* The indexes of the entries of extractLinks flagged internal, and the n-th
\* of them.
InternalIndexes == { k \in 1..Len(ExtractedLinks) : ExtractedLinks[k].isInternal }

NthInternal(n) ==
  CHOOSE k \in InternalIndexes : Cardinality({ m \in InternalIndexes : m < k }) = n - 1

\* C19: a link is internal exactly when its target starts with none of
\* 'http://', 'https://', 'mailto:' and '#'; extractInternalLinks returns the
\* entries of extractLinks flagged internal, in the same order.
C19_InternalLinks ==
  /\ "extractLinks" \in DOMAIN returns =>
       \A k \in 1..Len(ExtractedLinks) :
         ExtractedLinks[k].isInternal
           <=> (/\ Head(ExtractedLinks[k].url) # "http://"
                /\ Head(ExtractedLinks[k].url) # "https://"
                /\ Head(ExtractedLinks[k].url) # "mailto:"
                /\ Head(ExtractedLinks[k].url) # "#")
  /\ ("extractLinks" \in DOMAIN returns /\ "extractInternalLinks" \in DOMAIN returns) =>
       /\ Len(InternalLinksReturned) = Cardinality(InternalIndexes)
       /\ \A n \in 1..Len(InternalLinksReturned) :
            InternalLinksReturned[n] = ExtractedLinks[NthInternal(n)]

\* An external link, a relative link, an in-page anchor and nothing else:
\* three entries, of which the relative one alone is internal.
C19_Witness ==
  /\ "extractLinks" \in DOMAIN returns /\ "extractInternalLinks" \in DOMAIN returns
  /\ args.pieces = << LinkToken("Site", UrlExt), LinkToken("API", UrlRel),
                      LinkToken("t", << "#", "top" >>) >>
  /\ Len(ExtractedLinks) = 3
  /\ Len(InternalLinksReturned) = 1
  /\ InternalLinksReturned[1].url = UrlRel

\* ------------------------------------------------ metadata generator claims
GeneratedReturned == returns["generateMetadata"]

MergedReturned == returns["mergeMetadata"]

\* The fields the author declared, the always regenerated ones apart.
DeclaredFields == DOMAIN args.existingMetadata \ AutoGenerated

\* mergeMetadata returns every declared field as the author declared it.
MergeKeepsDeclared ==
  "mergeMetadata" \in DOMAIN returns =>
    \A field \in DeclaredFields :
      field \in DOMAIN MergedReturned /\ MergedReturned[field] = args.existingMetadata[field]

\* C20: a value declared by the author is never overridden: for every
\* declared field other than word_count, estimated_read_time and
\* last_validated, mergeMetadata(existing, generateMetadata(existing)) returns
\* the declared value, and generateMetadata does not list the field among
\* its generated fields.
C20_DeclaredNeverOverridden ==
  /\ MergeKeepsDeclared
  /\ "generateMetadata" \in DOMAIN returns =>
       \A field \in DeclaredFields : field \notin Range(GeneratedReturned["_generated"].fields)

\* ------------------------------------------------------ link graph claims
\* The ids of the nodes, in insertion order.
NodeIds(ns) == [k \in 1..Len(ns) |-> ns[k].id]

\* One node per enumerated file, and no other.
NodesComplete ==
  /\ Len(nodes) = Len(files)
  /\ \A k \in 1..Len(files) : nodes[k].id = relative(docsPath, files[k])

IsPrefix(s, u) == Len(s) <= Len(u) /\ SubSeq(u, 1, Len(s)) = s

\* C21: in every execution of buildLinkGraph the node set is complete, one
\* node per enumerated file, before the first link is resolved against it;
\* from the edge pass on no node is added or removed, and the edges are only
\* appended, never removed or rewritten.
C21_NodesBeforeEdges ==
  [][ /\ pc' # "nodes" => NodesComplete'
      /\ edges' # <<>> => NodesComplete
      /\ pc # "nodes" => NodeIds(nodes') = NodeIds(nodes)
      /\ IsPrefix(edges, edges') ]_vars

\* The edge pass has ended on a complete node set and appended two edges.
C21_Witness ==
  /\ pc = "orphans" /\ graphStatus = "returned"
  /\ NodesComplete
  /\ Len(edges) = 2

\* The internal links of file whose target, as buildLinkGraph resolves it, is
\* the node id.
LinksResolvingTo(file, id) ==
  SelectSeq(InternalLinks(file),
            LAMBDA l : BeforeHash(l.url) # <<>> /\ GraphTarget(l.url, dirname(file)) = id)

EdgesBetween(source, target) ==
  SelectSeq(edges, LAMBDA e : e.source = source /\ e.target = target)

StepsAgreeWithDfs ==
  dfs.phase = "done" =>
    returns["detectCircularDependencies"] = detectCircularDependencies(args.graph)

\* a refers to b in the graph.
RefersTo(graph, a, b) == b \in Range(GraphGet(graph, a))

\* The files form a directed cycle of the graph: each refers to the next,
\* the last to the first.
IsDirectedCycle(graph, fs) ==
  /\ fs # <<>>
  /\ \A k \in 1..(Len(fs) - 1) : RefersTo(graph, fs[k], fs[k + 1])
  /\ RefersTo(graph, fs[Len(fs)], fs[1])

\* The nodes of the frames, bottom first: the traversal stack.
StackNodes(d) == [k \in 1..Len(d.frames) |-> d.frames[k].node]

\* C23: every cycle entry is a genuine directed cycle of the input graph:
\* when it is recorded it is the slice of the traversal stack from the first
\* occurrence of the revisited node to the top, each member refers to the
\* next and the last to the first; so are the entries returned.
C23_CyclesAreGenuine ==
  [][ /\ dfs'.phase # "none" =>
           \A k \in 1..Len(dfs'.cycles) : IsDirectedCycle(args.graph, dfs'.cycles[k].files)
      /\ (dfs.phase = "running" /\ dfs'.cycles # dfs.cycles) =>
           LET stack == StackNodes(dfs)
               revisited == Head(Last(dfs.frames).imports)
           IN  /\ revisited \in Range(stack)
               /\ dfs'.cycles = Append(dfs.cycles,
                                   [files |-> SubSeq(stack, IndexOf(stack, revisited), Len(stack))])
      /\ "detectCircularDependencies" \in DOMAIN returns' =>
           \A k \in 1..Len(returns'["detectCircularDependencies"]) :
             /\ IsDirectedCycle(args.graph, returns'["detectCircularDependencies"][k].files)
             /\ returns'["detectCircularDependencies"][k] \in Range(dfs.cycles) ]_vars

\* A cycle through the three files has been recorded and returned.
C23_Witness ==
  /\ dfs.phase = "done"
  /\ \E k \in 1..Len(returns["detectCircularDependencies"]) :
       Len(returns["detectCircularDependencies"][k].files) = 3

\* The graph has a directed cycle, a file that refers to itself included.
HasDirectedCycle(graph) == \E fs \in ImportLists : IsDirectedCycle(graph, fs)

\* C28: the detection reports at least one cycle exactly when the graph has
\* a directed cycle, a self-reference included, whatever the insertion
\* order of the keys and of the imports.
C28_ReportsIffCyclic ==
  dfs.phase = "done" =>
    (returns["detectCircularDependencies"] # <<>> <=> HasDirectedCycle(args.graph))

\* A graph whose only cycle is a self-reference met after an acyclic part.
C28_Witness ==
  /\ dfs.phase = "done"
  /\ Len(args.graph) = 2
  /\ returns["detectCircularDependencies"] = << [files |-> << args.graph[2].key >>] >>
  /\ args.graph[1].imports = << args.graph[2].key >>

\* No file is expanded twice.
ExpandedOnce(d) == \A j, k \in 1..Len(d.expanded) : j # k => d.expanded[j] # d.expanded[k]

\* C29: the depth-first cycle detection terminates on every graph, cyclic or
\* not; each node is expanded at most once, and when the traversal ends the
\* recursion stack is empty.
C29_Terminates ==
  /\ <>(dfs.phase = "done")
  /\ [](dfs.phase # "none" => ExpandedOnce(dfs))
  /\ [](dfs.phase = "done" => dfs.recursionStack = {} /\ dfs.frames = <<>> /\ dfs.todo = <<>>)

\* The traversal has ended on a cyclic graph after expanding its three files.
C29_Witness ==
  /\ dfs.phase = "done"
  /\ HasDirectedCycle(args.graph)
  /\ Len(dfs.expanded) = 3
  /\ dfs.recursionStack = {}

\* ------------------------------------------------- content phase claims
\* The keyword scores of a text, one for each domain that scores.
KeywordScores(text) ==
  SelectSeq([k \in 1..Len(DOMAINS) |-> ScoreOf(DOMAINS[k], text)], LAMBDA s : s > 0)

\* T: the top keyword score of a text.
TopKeywordScore(text) ==
  CHOOSE s \in Range(KeywordScores(text)) : \A o \in Range(KeywordScores(text)) : o <= s

\* S: the score of the second-best domain, 0 if there is none.
SecondKeywordScore(text) ==
  LET scores == KeywordScores(text)
      top == CHOOSE k \in 1..Len(scores) : \A m \in 1..Len(scores) : scores[m] <= scores[k]
      rest == { m \in 1..Len(scores) : m # top }
  IN  IF rest = {} THEN 0
      ELSE scores[CHOOSE m \in rest : \A o \in rest : scores[o] <= scores[m]]

\* min(0.5 + 0.3 min(T/20, 1) + min((T - S)/10, 0.3), 0.95), in thousandths
ContentConfidence(T, S) ==
  Min2(500 + (300 * Min2(T, 20)) \div 20 + Min2(100 * (T - S), 300), 950)

\* A result of the content phase: one that selects a domain by keywords.
SelectedByContent(res) == res.method = "keywords"

\* C24: whenever the content phase selects a domain, with top keyword score
\* T and second-best score S, its confidence is
\* min(0.5 + 0.3 min(T/20, 1) + min((T - S)/10, 0.3), 0.95); a result of
\* detectDomain comes from the content phase only when the confidence of the
\* path phase is below 0.9 and content is supplied.
C24_ContentConfidence ==
  /\ \A fn \in DOMAIN returns \cap { "detectDomain", "detectDomainFromContent" } :
       SelectedByContent(returns[fn]) =>
         /\ KeywordScores(args.content.value) # <<>>
         /\ returns[fn].confidence =
              ContentConfidence(TopKeywordScore(args.content.value),
                                SecondKeywordScore(args.content.value))
  /\ (Detected /\ returns["detectDomain"].method \in { "keywords", "content" }) =>
       /\ args.content.passed /\ args.content.value # <<>>
       /\ PathPhase.confidence < 900
  /\ (Detected /\ PathPhase.confidence >= 900) => returns["detectDomain"] = PathPhase

\* The content phase has won over a path match with a confidence at the cap,
\* its top score above 20.
C24_Witness ==
  /\ Detected
  /\ SelectedByContent(returns["detectDomain"])
  /\ PathPhase.domain # Null
  /\ TopKeywordScore(args.content.value) > 20
  /\ SecondKeywordScore(args.content.value) > 0
  /\ returns["detectDomain"].confidence = 950

\* C26 (as claimed): in every result of detectDomain the chosen domain is
\* not among the alternates, also when the content phase wins over a path
\* match of lower confidence.
C26_ChosenNotAlternate ==
  Detected =>
    \A k \in 1..Len(returns["detectDomain"].alternativeDomains) :
      returns["detectDomain"].alternativeDomains[k].domain # returns["detectDomain"].domain

\* ------------------------------------------------- link checker claims
\* C27: after checkLinks has completed, on a corpus with files that fail to
\* read as on any other, the counters of its result agree: totalLinks =
\* stats.internalLinks + stats.externalLinks, stats.internalLinks =
\* validLinks + the number of brokenLinks, stats.externalLinks = the number
\* of externalLinks entries, and stats.crossDomainLinks = the number of
\* crossDomainLinks entries, at most validLinks.
C27_CountersAgree ==
  pc = "checked" =>
    /\ result.totalLinks = result.stats.internalLinks + result.stats.externalLinks
    /\ result.stats.internalLinks = result.validLinks + Len(result.brokenLinks)
    /\ result.stats.externalLinks = Len(result.externalLinks)
    /\ result.stats.crossDomainLinks = Len(result.crossDomainLinks)
    /\ result.stats.crossDomainLinks <= result.validLinks

\* A check has completed over a file that failed to read and files with a
\* broken and a cross-domain link.
C27_Witness ==
  /\ pc = "checked"
  /\ \E k \in 1..Len(checkFiles) : checkFiles[k] \in unreadable
  /\ result.brokenLinks # <<>>
  /\ result.crossDomainLinks # <<>>

\* ------------------------------------------------- link statistics claims
\* C30 (as claimed): the orphanCount of getLinkStatistics is the number of
\* paths findOrphanFiles returns on the same corpus.
C30_OrphanCountAgrees ==
  (orphans.status = "returned" /\ statistics.status = "returned") =>
    statistics.value.orphanCount = Len(orphans.value)

\* ------------------------------------------------- maintenance claims
\* C25 (as claimed): the healthScore runMaintenance returns is a number
\* within 0..100 for every combination of step results: a metadata sync that
\* finds no documents, steps that failed and steps that were skipped
\* included.
C25_HealthScoreInRange ==
  "runMaintenance" \in DOMAIN returns =>
    LET healthScore == returns["runMaintenance"].healthScore
    IN  /\ ~ healthScore.nan
        /\ 0 <= healthScore.num
        /\ healthScore.num <= 100 * healthScore.den

====
